---- MODULE Spec2Model ----
(***************************************************************************)
(* Ground-decal handler of the Spring engine                               *)
(* (rts/Rendering/Env/Decals/GroundDecalHandler.cpp): the scar table with  *)
(* its free/pending/used id lists and the coarse scar field, and the       *)
(* object-decal pool with its per-type lists.                              *)
(*                                                                         *)
(* Lengths are in elmos as in the source (SQUARE_SIZE = 8, one texel quad  *)
(* = 16 elmos); floats are modelled by the integers the chosen inputs      *)
(* produce.                                                                *)
(***************************************************************************)
EXTENDS Integers, Sequences, FiniteSets, TLC

\* ------------------------------------------------------------------ constants of the program
TEX_QUAD_SIZE == 16
SQUARE_SIZE == 8

\* ------------------------------------------------------------------ bounds of the model
\* size of the scar table (MAX_SCAR_COUNT, 4096 in the source)
MaxScarCount == 3
\* the last simulation frame the model lets the clock reach
MaxFrame == 61
\* cap on the overlap-pass stamp (one pass per committed explosion)
MaxPasses == 4
\* chunks the object-decal pool can hand out
PoolCapacity == 2
\* solid objects (units and features) and ghost records of the simulation
NumObjects == 2
NumGhosts == 1
\* cap on the calls of sogdMemPool.alloc
MaxAllocs == 3
\* largest quad coordinate of the rectangles handed to ScarOverlapSize
MaxCoord == 2
\* cap on the scars held, pending and committed, while the toggle is exercised
MaxToggleScars == 1

\* ------------------------------------------------------------------ the map and the configuration
\* mapDims.mapx, mapDims.mapy in heightmap squares
MapX == 64
MapY == 32
hmapx == MapX \div 2
hmapy == MapY \div 2
scarFieldX == MapX \div 32
scarFieldY == MapY \div 32
\* the GroundDecals configuration level of a run with decals enabled
decalLevel == 1
maxScarOverlapSize == decalLevel + 1

Min(a, b) == IF a < b THEN a ELSE b
Max(a, b) == IF a > b THEN a ELSE b

ScarIDs == 0 .. (MaxScarCount - 1)
Cells == 0 .. (scarFieldX * scarFieldY - 1)

\* the simulation frames at which a scar of the modelled lifetimes (60 or 120
\* frames) is created, reaches its lifeTime or has passed it: the clock jumps
\* between them
Frames == {f \in 0 .. MaxFrame : f = 0 \/ (f >= 60 /\ f % 60 \in {0, 1})}

\* explosion inputs
ExplosionPos == {<<8, 8>>, <<248, 24>>}
ExplosionDamage == {20, 40}
\* <<craterAreaOfEffect, altitude over ground>>: on the ground, too small,
\* below ground, and higher than the radius
ExplosionReach == {<<48, 0>>, <<4, 0>>, <<48, -1>>, <<48, 48>>}

VARIABLES
    scars,               \* static std::array<Scar, MAX_SCAR_COUNT> scars
    freeScarIDs,         \* static std::vector<int> freeScarIDs
    usedScarIDs,         \* static std::vector<int> usedScarIDs
    addedScars,          \* pending ids, committed by the next AddScars
    scarField,           \* per coarse cell, the ids of the scars over it
    lastScarOverlapTest, \* stamp of the last overlap pass
    frameNum,            \* gs->frameNum
    drawDecals,          \* GetDrawDecals()
    haveGLSL,            \* decalShaders[DECAL_SHADER_CURR] != nullptr
    decals,              \* sogdMemPool: the SolidObjectGroundDecal of each chunk
    objectDecalTypes,    \* std::vector<SolidObjectDecalType>: name and objectDecals
    allocs,              \* calls of sogdMemPool.alloc so far
    groundDecal,         \* CSolidObject::groundDecal of each object (0: nullptr)
    groundDecalType,     \* SolidObjectDecalDef::groundDecalType of each definition
    objAlive,            \* the objects the simulation holds
    ghostDecal,          \* GhostSolidObject::decal of each ghost (0: nullptr)
    ghostAge,            \* drawFrame - lastDrawFrame of each ghost, 2 standing for more
    ghostAlive,          \* the ghost records the simulation holds
    calc,                \* the arguments and results of a ScarOverlapSize evaluation
    events,              \* what the last handler did, in order (history)
    op                   \* the last handler that ran (history): its name, whether it
                         \* returned at a gate, the id or chunk it got, its object,
                         \* its name argument, and for AddSolidObject the chunk the
                         \* object gave up in a RemoveSolidObject just before

scarVars == <<scars, freeScarIDs, usedScarIDs, addedScars, scarField, lastScarOverlapTest>>
decalVars == <<decals, allocs, objectDecalTypes, groundDecal, groundDecalType, ghostDecal>>
simVars == <<objAlive, ghostAge, ghostAlive>>
vars == <<scars, freeScarIDs, usedScarIDs, addedScars, scarField, lastScarOverlapTest,
          frameNum, drawDecals, haveGLSL, decals, allocs, objectDecalTypes, groundDecal,
          groundDecalType, objAlive, ghostDecal, ghostAge, ghostAlive, calc, events, op>>

\* F applied to the value of v, v being evaluated once
With(v, F(_)) == CHOOSE r \in {F(x) : x \in {v}} : TRUE

\* ------------------------------------------------------------------ containers (System/ContainerUtil.h)
IndexOf(v, e) == IF \E i \in 1 .. Len(v) : v[i] = e
                 THEN CHOOSE i \in 1 .. Len(v) : v[i] = e /\ \A j \in 1 .. (i - 1) : v[j] # e
                 ELSE 0

\* erase the first occurrence by overwriting it with the last element
VectorErase(v, e) ==
    LET i == IndexOf(v, e) IN
    IF i = 0 THEN v
    ELSE SubSeq([v EXCEPT ![i] = v[Len(v)]], 1, Len(v) - 1)

\* the caller vouches for uniqueness: a plain push_back
VectorInsertUnique(v, e) == Append(v, e)

VectorBack(v) == v[Len(v)]
VectorPopped(v) == SubSeq(v, 1, Len(v) - 1)

Count(v, e) == Cardinality({i \in 1 .. Len(v) : v[i] = e})
Range(v) == {v[i] : i \in 1 .. Len(v)}
NoDup(v) == \A i, j \in 1 .. Len(v) : v[i] = v[j] => i = j

\* ------------------------------------------------------------------ Scar
ResetScar ==
    [id |-> -1, x1 |-> 0, y1 |-> 0, x2 |-> 0, y2 |-> 0,
     creationTime |-> 0, lifeTime |-> 0, basesize |-> 0, overdrawn |-> 0, lastTest |-> 0]

\* the cells of the scar field a scar lies over, in the order the loops visit them
CellX1(s) == s.x1 \div TEX_QUAD_SIZE
CellY1(s) == s.y1 \div TEX_QUAD_SIZE
CellX2(s) == Min(scarFieldX - 1, s.x2 \div TEX_QUAD_SIZE)
CellY2(s) == Min(scarFieldY - 1, s.y2 \div TEX_QUAD_SIZE)

RECURSIVE CellSeq(_, _, _, _, _)
CellSeq(x, y, x1, x2, y2) ==
    IF y > y2 THEN <<>>
    ELSE IF x > x2 THEN CellSeq(x1, y + 1, x1, x2, y2)
    ELSE <<y * scarFieldX + x>> \o CellSeq(x + 1, y, x1, x2, y2)

ScarCells(s) == CellSeq(CellX1(s), CellY1(s), CellX1(s), CellX2(s), CellY2(s))

ScarOverlapSize(s1, s2) ==
    IF s1.x1 >= s2.x2 \/ s1.x2 <= s2.x1 THEN 0
    ELSE IF s1.y1 >= s2.y2 \/ s1.y2 <= s2.y1 THEN 0
    ELSE LET xs == IF s1.x1 < s2.x1 THEN s1.x2 - s2.x1 ELSE s2.x2 - s1.x1
             ys == IF s1.y1 < s2.y1 THEN s1.y2 - s2.y1 ELSE s2.y2 - s1.y1
         IN xs * ys

\* ------------------------------------------------------------------ history records
\* one step of a handler: kind is "seen", "skip", "test", "charge", "evict", "expire" or
\* "draw"; s is the new scar of the pass (-1 outside a pass), t the scar acted on,
\* stamp the lastScarOverlapTest of the pass; for the destructor and for a
\* turn of GatherDecalsForType decal is TRUE, kind is "destroy", "free", "next" or "draw", t is
\* the chunk, live whether it was allocated, before and alpha its opacity on
\* entry and at the fade-out test
NoEvent ==
    [kind |-> "none", s |-> -1, t |-> -1, sLife |-> 0, tLife |-> 0, ov |-> 0,
     before |-> 0, after |-> 0, base |-> 0, span |-> 0, inCells |-> 0, inUsed |-> 0, inFree |-> 0,
     frame |-> 0, stamp |-> 0, decal |-> FALSE, live |-> FALSE, owner |-> 0, gbOwner |-> 0, alpha |-> 0]

InCells(field, id) == Cardinality({c \in Cells : Count(field[c], id) > 0})

\* ------------------------------------------------------------------ RemoveScar
\* st is the handler's scar state while a handler runs
EraseFromCells_FirstOnly(field, cells, id) ==
    [c \in Cells |-> IF Len(cells) > 0 /\ cells[1] = c
                     THEN VectorErase(field[c], id) ELSE field[c]]

EraseFromCells(field, cells, id) ==
    [c \in Cells |-> IF \E k \in 1 .. Len(cells) : cells[k] = c
                     THEN VectorErase(field[c], id) ELSE field[c]]

RemoveScar(st, slot) ==
    LET scar == st.scars[slot] IN
    [st EXCEPT !.scarField = EraseFromCells(st.scarField, ScarCells(scar), scar.id),
               !.freeScarIDs = VectorInsertUnique(st.freeScarIDs, scar.id),
               !.usedScarIDs = VectorErase(st.usedScarIDs, scar.id),
               !.scars[slot] = ResetScar]

\* ------------------------------------------------------------------ TestScarOverlaps
AlreadyTested_Never(stamp, testScar) == FALSE

\* "if (lastScarOverlapTest == testScar.lastTest) continue"
AlreadyTested(stamp, testScar) == stamp = testScar.lastTest

OutlivesNew_Never(scar, testScar) == FALSE
OutlivesNew_Reversed(scar, testScar) == scar.lifeTime > testScar.lifeTime

\* "if (scar.lifeTime < testScar.lifeTime) continue"
OutlivesNew(scar, testScar) == scar.lifeTime < testScar.lifeTime

\* "testScar.overdrawn += (overlapSize / testScar.basesize)"
Charged(testScar, overlapSize) == testScar.overdrawn + (overlapSize \div testScar.basesize)

NothingToCharge_ZeroBaseOnly(overlapSize, testScar) == testScar.basesize = 0

\* "if (overlapSize == 0 || testScar.basesize == 0) continue"
NothingToCharge(overlapSize, testScar) == overlapSize = 0 \/ testScar.basesize = 0

Evicts_AtThreshold(sum) == sum >= maxScarOverlapSize

\* "<= maxScarOverlapSize) continue", else RemoveScar
Evicts(sum) == ~(sum <= maxScarOverlapSize)

\* the inner loop over one quad, from index i (1-based); sid is the new scar
RECURSIVE TestQuad(_, _, _, _)
TestQuad(st, sid, q, i) ==
    IF i > Len(st.scarField[q]) THEN st
    ELSE
        LET scar == st.scars[sid]
            tid == st.scarField[q][i]
            testScar == st.scars[tid]
            overlapSize == ScarOverlapSize(scar, testScar)
            ev == [NoEvent EXCEPT !.s = sid, !.t = tid, !.sLife = scar.lifeTime,
                                  !.tLife = testScar.lifeTime, !.ov = overlapSize,
                                  !.span = Len(ScarCells(testScar)), !.base = testScar.basesize,
                                  !.before = testScar.overdrawn, !.after = testScar.overdrawn,
                                  !.stamp = st.lastScarOverlapTest]
        IN
        IF AlreadyTested(st.lastScarOverlapTest, testScar)
        THEN With([st EXCEPT !.events = Append(@, [ev EXCEPT !.kind = "seen"])],
                  LAMBDA next : TestQuad(next, sid, q, i + 1))
        ELSE IF OutlivesNew(scar, testScar)
        THEN With([st EXCEPT !.events = Append(@, [ev EXCEPT !.kind = "skip"])],
                  LAMBDA next : TestQuad(next, sid, q, i + 1))
        ELSE
            LET st1 == [st EXCEPT !.scars[tid].lastTest = st.lastScarOverlapTest,
                                  !.events = Append(@, [ev EXCEPT !.kind = "test"])]
            IN
            IF NothingToCharge(overlapSize, testScar)
            THEN With(st1, LAMBDA next : TestQuad(next, sid, q, i + 1))
            ELSE
                LET sum == Charged(testScar, overlapSize)
                    st2 == [st1 EXCEPT !.scars[tid].overdrawn = sum,
                                       !.events = Append(@, [ev EXCEPT !.kind = "charge", !.after = sum])]
                IN
                IF ~Evicts(sum) THEN With(st2, LAMBDA next : TestQuad(next, sid, q, i + 1))
                ELSE
                    LET st3 == RemoveScar(st2, tid)
                        st4 == [st3 EXCEPT !.events = Append(@,
                                   [ev EXCEPT !.kind = "evict", !.after = sum,
                                              !.inCells = InCells(st3.scarField, tid),
                                              !.inUsed = Count(st3.usedScarIDs, tid),
                                              !.inFree = Count(st3.freeScarIDs, tid)])]
                    IN With(st4, LAMBDA next : TestQuad(next, sid, q, i + 1))

RECURSIVE TestQuads(_, _, _, _)
TestQuads(st, sid, cells, k) ==
    IF k > Len(cells) THEN st
    ELSE With(TestQuad(st, sid, cells[k], 1),
              LAMBDA next : TestQuads(next, sid, cells, k + 1))

TestScarOverlaps(st, sid) ==
    With([st EXCEPT !.lastScarOverlapTest = @ + 1],
         LAMBDA st1 : TestQuads(st1, sid, ScarCells(st1.scars[sid]), 1))

\* ------------------------------------------------------------------ AddScars
RECURSIVE TestAdded(_, _)
TestAdded(st, k) ==
    IF k > Len(st.addedScars) THEN st
    ELSE With(TestScarOverlaps(st, st.addedScars[k]),
              LAMBDA next : TestAdded(next, k + 1))

InsertIntoCells_FirstOnly(field, cells, id) ==
    [c \in Cells |-> IF Len(cells) > 0 /\ cells[1] = c
                     THEN VectorInsertUnique(field[c], id) ELSE field[c]]

InsertIntoCells(field, cells, id) ==
    [c \in Cells |-> IF \E k \in 1 .. Len(cells) : cells[k] = c
                     THEN VectorInsertUnique(field[c], id) ELSE field[c]]

RECURSIVE CommitAdded(_, _)
CommitAdded(st, k) ==
    IF k > Len(st.addedScars) THEN st
    ELSE
        LET id == st.addedScars[k]
            s == st.scars[id]
        IN With([st EXCEPT !.scarField = InsertIntoCells(@, ScarCells(s), s.id),
                           !.usedScarIDs = Append(@, id)],
                LAMBDA next : CommitAdded(next, k + 1))

RECURSIVE TestAndCommitEach(_, _)
TestAndCommitEach(st, k) ==
    IF k > Len(st.addedScars) THEN st
    ELSE
        LET id == st.addedScars[k] IN
        With(TestScarOverlaps(st, id),
             LAMBDA st1 :
                 With([st1 EXCEPT !.scarField =
                                      InsertIntoCells(@, ScarCells(st1.scars[id]), st1.scars[id].id),
                                  !.usedScarIDs = Append(@, id)],
                      LAMBDA next : TestAndCommitEach(next, k + 1)))

AddScars_OneByOne(st) ==
    With(TestAndCommitEach(st, 1), LAMBDA done : [done EXCEPT !.addedScars = <<>>])

\* the loop of TestScarOverlaps over addedScars, then the loop that commits them
AddScars(st) ==
    With(TestAdded(st, 1),
         LAMBDA tested :
             With(CommitAdded(tested, 1), LAMBDA done : [done EXCEPT !.addedScars = <<>>]))

\* ------------------------------------------------------------------ DrawScars
Expired_AtLifeTime(scar, frame) == scar.lifeTime <= frame

\* "if (scar.lifeTime < gs->frameNum)": RemoveScar, else DrawGroundScar
Expired(scar, frame) == scar.lifeTime < frame

AfterRemoval_Advances(i) == i + 1

\* "RemoveScar(scar); continue;": the entry swapped into place i is next
AfterRemoval(i) == i

RECURSIVE DrawScarsFrom(_, _)
DrawScarsFrom(st, i) ==
    IF i > Len(st.usedScarIDs) THEN st
    ELSE
        LET slot == st.usedScarIDs[i]
            scar == st.scars[slot]
            ev == [NoEvent EXCEPT !.t = slot, !.tLife = scar.lifeTime, !.frame = st.frameNum,
                                  !.span = Len(ScarCells(scar)), !.base = scar.basesize,
                                  !.before = scar.overdrawn, !.after = scar.overdrawn]
        IN
        IF Expired(scar, st.frameNum)
        THEN LET st1 == RemoveScar(st, slot)
                 st2 == [st1 EXCEPT !.events = Append(@,
                            [ev EXCEPT !.kind = "expire",
                                       !.inCells = InCells(st1.scarField, slot),
                                       !.inUsed = Count(st1.usedScarIDs, slot),
                                       !.inFree = Count(st1.freeScarIDs, slot)])]
             IN With(st2, LAMBDA next : DrawScarsFrom(next, AfterRemoval(i)))
        ELSE With([st EXCEPT !.events = Append(@, [ev EXCEPT !.kind = "draw"])],
                  LAMBDA next : DrawScarsFrom(next, i + 1))

DrawScars(st) == DrawScarsFrom(st, 1)

\* ------------------------------------------------------------------ the handler state as one record
ScarState ==
    [scars |-> scars, freeScarIDs |-> freeScarIDs, usedScarIDs |-> usedScarIDs,
     addedScars |-> addedScars, scarField |-> scarField,
     lastScarOverlapTest |-> lastScarOverlapTest, frameNum |-> frameNum, events |-> <<>>]

SetScarState(st) ==
    /\ scars' = st.scars
    /\ freeScarIDs' = st.freeScarIDs
    /\ usedScarIDs' = st.usedScarIDs
    /\ addedScars' = st.addedScars
    /\ scarField' = st.scarField
    /\ lastScarOverlapTest' = st.lastScarOverlapTest
    /\ events' = st.events

\* ------------------------------------------------------------------ AddExplosion
\* largest n with n * n <= v
ISqrt(v) == CHOOSE n \in 0 .. v : n * n <= v /\ (n + 1) * (n + 1) > v

\* pos.cClampInBounds()
ClampInBounds(p) ==
    <<Max(0, Min(MapX * SQUARE_SIZE - 1, p[1])), Max(0, Min(MapY * SQUARE_SIZE - 1, p[2]))>>

TimeToLive_Unclamped(damage) == decalLevel * damage * 3

\* "const int ttl = std::max(1.0f, decalLevel * damage * 3.0f)"
TimeToLive(damage) == Max(1, decalLevel * damage * 3)

\* the scar record AddExplosion fills in, from the values left after the gates
NewScar(id, pos, damage, radius, frame) ==
    LET p == ClampInBounds(pos)
        ttl == TimeToLive(damage)
        x1 == Max(0, (p[1] - radius)) \div (SQUARE_SIZE * 2)
        y1 == Max(0, (p[2] - radius)) \div (SQUARE_SIZE * 2)
        x2 == Min(hmapx - 1, (p[1] + radius) \div (SQUARE_SIZE * 2) + 1)
        y2 == Min(hmapy - 1, (p[2] + radius) \div (SQUARE_SIZE * 2) + 1)
    IN [id |-> id, x1 |-> x1, y1 |-> y1, x2 |-> x2, y2 |-> y2,
        creationTime |-> frame, lifeTime |-> frame + ttl,
        basesize |-> (x2 - x1) * (y2 - y1), overdrawn |-> 0, lastTest |-> 0]

\* GetScarID: the id handed out (-1 when none is free) and the free list left
GetScarID_Unchecked(free) == IF Len(free) = 0 THEN 0 ELSE VectorBack(free)
GetScarID(free) == IF Len(free) = 0 THEN -1 ELSE VectorBack(free)
AfterGetScarID_NoPop(free) == free
AfterGetScarID(free) == IF Len(free) = 0 THEN free ELSE VectorPopped(free)

\* the altitude and radius gates at the head of AddExplosion
PassesGates(radius0, altitude) ==
    ~(altitude <= -1) /\ ~(altitude >= radius0) /\ ~(radius0 - altitude < 5)

AddExplosion(st, pos, damage0, radius0, altitude) ==
    IF ~PassesGates(radius0, altitude) THEN st
    ELSE
        LET radius1 == radius0 - altitude IN
            LET damage1 == Min(damage0, radius1 * 30)
                damage2 == (damage1 * radius1) \div (radius1 + altitude)
                radius == Min(radius1, damage2 \div 4)
                damage == IF damage2 > 400 THEN 400 + ISqrt(damage2 - 399) ELSE damage2
                id == GetScarID(st.freeScarIDs)
                st1 == [st EXCEPT !.freeScarIDs = AfterGetScarID(@)]
            IN
            IF id = -1 THEN st1
            ELSE [st1 EXCEPT !.scars[id] = NewScar(id, pos, damage, radius, st.frameNum),
                             !.addedScars = Append(@, id)]

\* ------------------------------------------------------------------ object decals: the simulation's side
Objects == 1 .. NumObjects
Ghosts == 1 .. NumGhosts
Slots == 1 .. PoolCapacity

\* opacities in halves: 2 is a finished structure, 0 is transparent
AlphaFull == 2

\* SolidObjectDecalDef of the object definitions
\* the last two are malformed: one uses no ground decal, one names a texture
\* that is not there
DecalDefs ==
    <<[useGroundDecal |-> TRUE, groundDecalTypeName |-> "Pad", groundDecalDecaySpeed |-> 1],
      [useGroundDecal |-> TRUE, groundDecalTypeName |-> "Slab", groundDecalDecaySpeed |-> 0],
      [useGroundDecal |-> FALSE, groundDecalTypeName |-> "Pad", groundDecalDecaySpeed |-> 1],
      [useGroundDecal |-> TRUE, groundDecalTypeName |-> "Rubble", groundDecalDecaySpeed |-> 1]>>
Defs == 1 .. Len(DecalDefs)
\* object->GetDef(), and whether GetBlockingMapID() < unitHandler.MaxUnits()
ObjectDef(o) == ((o - 1) % Len(DecalDefs)) + 1
ObjectIsUnit(o) == o % 2 = 1

StringToLower(name) ==
    CASE name = "Pad" -> "pad"
      [] name = "PAD" -> "pad"
      [] name = "Slab" -> "slab"
      [] name = "SLAB" -> "slab"
      [] name = "Rubble" -> "rubble"
      [] OTHER -> name
\* the files CBitmap::Load finds
TextureFiles == {"unittextures/pad", "unittextures/slab"}

\* what a frame sees of an owner: a unit's losStatus/icon state and
\* buildProgress, a feature's LOS and drawAlpha
UnitViews == {[seen |-> FALSE, value |-> 0], [seen |-> TRUE, value |-> 1],
              [seen |-> TRUE, value |-> AlphaFull]}
FeatureViews == {[seen |-> FALSE, value |-> AlphaFull], [seen |-> TRUE, value |-> 0],
                 [seen |-> TRUE, value |-> AlphaFull]}
Hidden == [seen |-> FALSE, value |-> 0]
ViewsOf(alive, unitViews, featureViews) ==
    {v \in [Objects -> unitViews \cup featureViews \cup {Hidden}] :
        \A o \in Objects :
            IF ~alive[o] THEN v[o] = Hidden
            ELSE IF ObjectIsUnit(o) THEN v[o] \in unitViews ELSE v[o] \in featureViews}
\* lastFrameTime * 0.001 * speedFactor, in the unit that makes a decay speed of 1 one half
FrameTimes == {1}

\* ------------------------------------------------------------------ sogdMemPool
NoDecal == [live |-> FALSE, owner |-> 0, gbOwner |-> 0, alpha |-> 0, alphaFalloff |-> 0]

\* what alloc can return: a free chunk, or 0 (nullptr) when there is none
PoolAlloc(pool) ==
    IF \E s \in Slots : ~pool[s].live THEN {s \in Slots : ~pool[s].live} ELSE {0}
PoolFree(pool, s) == [pool EXCEPT ![s] = NoDecal]

\* a store through a decal pointer; one into a chunk that was freed is lost
Store(pool, s, field, value) ==
    IF s # 0 /\ pool[s].live THEN [pool EXCEPT ![s][field] = value] ELSE pool

\* ------------------------------------------------------------------ GetSolidObjectDecalType
TypeIndex(types, lowerName) ==
    IF \E i \in 1 .. Len(types) : types[i].name = lowerName
    THEN (CHOOSE i \in 1 .. Len(types) :
             types[i].name = lowerName /\ \A j \in 1 .. (i - 1) : types[j].name # lowerName) - 1
    ELSE -1

GetSolidObjectDecalType_FindsAsGiven(types, enabled, name) ==
    LET lowerName == StringToLower(name)
        fullName == "unittextures/" \o lowerName
        found == TypeIndex(types, name)
    IN
    IF ~enabled THEN [index |-> -2, types |-> types]
    ELSE IF found >= 0 THEN [index |-> found, types |-> types]
    ELSE IF fullName \notin TextureFiles THEN [index |-> -2, types |-> types]
    ELSE [index |-> Len(types),
          types |-> Append(types, [name |-> lowerName, objectDecals |-> <<>>])]

\* the index returned (-2: none) and the registry left
GetSolidObjectDecalType(types, enabled, name) ==
    LET lowerName == StringToLower(name)
        fullName == "unittextures/" \o lowerName
        found == TypeIndex(types, lowerName)
    IN
    IF ~enabled THEN [index |-> -2, types |-> types]
    ELSE IF found >= 0 THEN [index |-> found, types |-> types]
    ELSE IF fullName \notin TextureFiles THEN [index |-> -2, types |-> types]
    ELSE [index |-> Len(types),
          types |-> Append(types, [name |-> lowerName, objectDecals |-> <<>>])]

\* ------------------------------------------------------------------ MoveSolidObject and the removals
\* ds is the handler's decal state while a handler runs; enabled is
\* GetDrawDecals(); alloc is what sogdMemPool.alloc returns should the handler
\* get that far, and ds.alloc records that it did
MoveSolidObject_TakesLiveChunk(ds, enabled, object, alloc) ==
    LET d == ObjectDef(object)
        got == IF ds.groundDecalType[d] < 0
               THEN GetSolidObjectDecalType(ds.objectDecalTypes, enabled,
                                            DecalDefs[d].groundDecalTypeName)
               ELSE [index |-> ds.groundDecalType[d], types |-> ds.objectDecalTypes]
        chunk == IF alloc = 0 THEN 1 ELSE alloc
    IN
    IF ~enabled \/ got.index < 0 THEN ds
    ELSE [ds EXCEPT !.groundDecalType[d] = got.index,
                    !.objectDecalTypes =
                        [got.types EXCEPT ![got.index + 1].objectDecals = Append(@, chunk)],
                    !.decals[chunk] =
                        [live |-> TRUE, owner |-> object, gbOwner |-> 0, alpha |-> 0,
                         alphaFalloff |-> DecalDefs[d].groundDecalDecaySpeed],
                    !.groundDecal[object] = chunk,
                    !.alloc = alloc, !.allocs = @ + 1]

MoveSolidObject_Ungated(ds, enabled, object, alloc) ==
    LET d == ObjectDef(object)
        decalDef == DecalDefs[d]
    IN
    IF FALSE THEN ds
    ELSE IF ~decalDef.useGroundDecal \/ ds.groundDecalType[d] < -1 THEN ds
    ELSE
        LET got == IF ds.groundDecalType[d] < 0
                   THEN GetSolidObjectDecalType(ds.objectDecalTypes, TRUE,
                                                decalDef.groundDecalTypeName)
                   ELSE [index |-> ds.groundDecalType[d], types |-> ds.objectDecalTypes]
            ds1 == [ds EXCEPT !.groundDecalType[d] = got.index, !.objectDecalTypes = got.types]
        IN
        IF got.index < -1 THEN ds1
        ELSE
            LET oldDecal == ds1.groundDecal[object]
                ds2 == [ds1 EXCEPT !.decals = Store(Store(@, oldDecal, "owner", 0),
                                                    oldDecal, "gbOwner", 0),
                                   !.alloc = alloc, !.allocs = @ + 1]
            IN
            IF alloc = 0 THEN ds2
            ELSE [ds2 EXCEPT !.decals[alloc] =
                                 [live |-> TRUE, owner |-> object, gbOwner |-> 0, alpha |-> 0,
                                  alphaFalloff |-> decalDef.groundDecalDecaySpeed],
                             !.groundDecal[object] = alloc,
                             !.objectDecalTypes[got.index + 1].objectDecals = Append(@, alloc)]

\* what line 885 leaves in decalDef.groundDecalType after the lookup
TypeRecorded_OnlyWhenFound(old, index) == IF index < 0 THEN old ELSE index

TypeRecorded(old, index) == index

\* MoveSolidObject on an object whose definition is DecalDefs[d]; ds.lookup
\* records the name GetSolidObjectDecalType was called with, if it was
MoveSolidObjectFor(ds, enabled, object, d, alloc) ==
    LET decalDef == DecalDefs[d] IN
    IF ~enabled THEN ds
    ELSE IF ~decalDef.useGroundDecal \/ ds.groundDecalType[d] < -1 THEN ds
    ELSE
        LET got == IF ds.groundDecalType[d] < 0
                   THEN GetSolidObjectDecalType(ds.objectDecalTypes, enabled,
                                                decalDef.groundDecalTypeName)
                   ELSE [index |-> ds.groundDecalType[d], types |-> ds.objectDecalTypes]
            ds1 == [ds EXCEPT !.groundDecalType[d] = TypeRecorded(@, got.index),
                              !.objectDecalTypes = got.types,
                              !.lookup = IF ds.groundDecalType[d] < 0
                                         THEN decalDef.groundDecalTypeName ELSE ""]
        IN
        IF got.index < -1 THEN ds1
        ELSE
            LET oldDecal == ds1.groundDecal[object]
                ds2 == [ds1 EXCEPT !.decals = Store(Store(@, oldDecal, "owner", 0),
                                                    oldDecal, "gbOwner", 0),
                                   !.alloc = alloc, !.allocs = @ + 1]
            IN
            IF alloc = 0 THEN ds2
            ELSE [ds2 EXCEPT !.decals[alloc] =
                                 [live |-> TRUE, owner |-> object, gbOwner |-> 0, alpha |-> 0,
                                  alphaFalloff |-> decalDef.groundDecalDecaySpeed],
                             !.groundDecal[object] = alloc,
                             !.objectDecalTypes[got.index + 1].objectDecals = Append(@, alloc)]

MoveSolidObject(ds, enabled, object, alloc) ==
    MoveSolidObjectFor(ds, enabled, object, ObjectDef(object), alloc)

RemoveSolidObject_KeepsOwner(ds, object, gb) ==
    LET decal == ds.groundDecal[object] IN
    IF decal = 0 THEN ds
    ELSE [ds EXCEPT !.ghostDecal = IF gb # 0 THEN [@ EXCEPT ![gb] = decal] ELSE @,
                    !.decals = Store(@, decal, "gbOwner", gb),
                    !.groundDecal[object] = 0]

RemoveSolidObject(ds, object, gb) ==
    LET decal == ds.groundDecal[object] IN
    IF decal = 0 THEN ds
    ELSE [ds EXCEPT !.ghostDecal = IF gb # 0 THEN [@ EXCEPT ![gb] = decal] ELSE @,
                    !.decals = Store(Store(@, decal, "owner", 0), decal, "gbOwner", gb),
                    !.groundDecal[object] = 0]

ForceRemoveSolidObject_KeepsAlpha(ds, object) ==
    LET decal == ds.groundDecal[object] IN
    IF decal = 0 THEN ds
    ELSE [ds EXCEPT !.decals = Store(@, decal, "owner", 0),
                    !.groundDecal[object] = 0]

ForceRemoveSolidObject(ds, object) ==
    LET decal == ds.groundDecal[object] IN
    IF decal = 0 THEN ds
    ELSE [ds EXCEPT !.decals = Store(Store(@, decal, "owner", 0), decal, "alpha", 0),
                    !.groundDecal[object] = 0]

GhostNotDrawn_SinceThisFrame(age) == age >= 1

\* "gb->lastDrawFrame < (globalRendering->drawFrame - 1)"
GhostNotDrawn(age) == age >= 2

GhostDestroyed(ds, gb, age) ==
    LET decal == ds.ghostDecal[gb] IN
    IF decal = 0 THEN ds
    ELSE [ds EXCEPT !.decals = IF GhostNotDrawn(age)
                               THEN Store(Store(@, decal, "gbOwner", 0), decal, "alpha", 0)
                               ELSE Store(@, decal, "gbOwner", 0)]

\* ------------------------------------------------------------------ GatherDecalsForType
FadedOut_AtZero(alpha) == alpha <= 0

\* "if (decal->alpha < 0.0f)": free the decal
FadedOut(alpha) == alpha < 0

\* one turn of the loop for one decal: its opacity afterwards and what becomes
\* of it: "free", "next" (a continue that leaves it in the list) or "draw"
GatherStep_IgnoresOwner(decal, ages, view, dt, inView) ==
    LET alpha == decal.alpha - decal.alphaFalloff * dt IN
    [alpha |-> alpha, act |-> IF alpha < 0 THEN "free" ELSE "next"]

GatherStep(decal, ages, view, dt, inView) ==
    IF decal.owner = 0 THEN
        IF decal.gbOwner # 0 /\ GhostNotDrawn(ages[decal.gbOwner])
        THEN [alpha |-> decal.alpha, act |-> "next"]
        ELSE
            LET alpha == IF decal.gbOwner = 0
                         THEN decal.alpha - decal.alphaFalloff * dt
                         ELSE decal.alpha
            IN [alpha |-> alpha,
                act |-> IF FadedOut(alpha) THEN "free" ELSE IF inView THEN "draw" ELSE "next"]
    ELSE
        LET v == view[decal.owner] IN
        IF ObjectIsUnit(decal.owner) THEN
            IF ~v.seen THEN [alpha |-> decal.alpha, act |-> "next"]
            ELSE [alpha |-> Max(0, v.value), act |-> IF inView THEN "draw" ELSE "next"]
        ELSE
            IF ~v.seen \/ v.value < 1 THEN [alpha |-> decal.alpha, act |-> "next"]
            ELSE [alpha |-> v.value, act |-> IF inView THEN "draw" ELSE "next"]

\* "objectDecals[i] = objectDecals.back(); objectDecals.pop_back();"
BackIntoPlace_PopsOnly(v, i) == VectorPopped(v)

BackIntoPlace(v, i) == VectorPopped([v EXCEPT ![i] = VectorBack(v)])

\* the loop over objectDecals of the type at index ti (1-based), from position i
RECURSIVE GatherFrom(_, _, _, _, _, _, _)
GatherFrom(ds, ti, i, ages, view, dt, inView) ==
    LET objectDecals == ds.objectDecalTypes[ti].objectDecals IN
    IF i > Len(objectDecals) THEN ds
    ELSE
        LET slot == objectDecals[i]
            decal == ds.decals[slot]
            Turn(step) ==
                LET ev == [NoEvent EXCEPT !.kind = step.act, !.decal = TRUE, !.t = slot,
                                          !.live = decal.live, !.owner = decal.owner,
                                          !.gbOwner = decal.gbOwner, !.before = decal.alpha,
                                          !.alpha = step.alpha]
                    ds1 == [ds EXCEPT !.decals[slot].alpha = step.alpha,
                                      !.events = Append(@, ev)]
                IN
                IF step.act = "free"
                THEN [ds1 EXCEPT !.decals = PoolFree(@, slot),
                                 !.objectDecalTypes[ti].objectDecals = BackIntoPlace(@, i)]
                ELSE ds1
            Rest(step, next) == GatherFrom(next, ti, IF step.act = "free" THEN i ELSE i + 1,
                                           ages, view, dt, inView)
        IN With(GatherStep(decal, ages, view, dt, inView),
                LAMBDA step : With(Turn(step), LAMBDA next : Rest(step, next)))

GatherDecalsForType(ds, ti, ages, view, dt, inView) ==
    GatherFrom(ds, ti, 1, ages, view, dt, inView)

RECURSIVE DrawObjectDecalsFrom(_, _, _, _, _, _)
DrawObjectDecalsFrom(ds, ti, ages, view, dt, inView) ==
    IF ti > Len(ds.objectDecalTypes) THEN ds
    ELSE With(IF Len(ds.objectDecalTypes[ti].objectDecals) = 0 THEN ds
              ELSE GatherDecalsForType(ds, ti, ages, view, dt, inView),
              LAMBDA next : DrawObjectDecalsFrom(next, ti + 1, ages, view, dt, inView))

DrawObjectDecals(ds, ages, view, dt, inView) ==
    DrawObjectDecalsFrom(ds, 1, ages, view, dt, inView)

\* ------------------------------------------------------------------ ~CGroundDecalHandler
\* the loops over the types and their objectDecals: the back pointers of the
\* owner and of the ghost are cleared and the record goes back to the pool
RECURSIVE TeardownFrom(_, _, _)
TeardownFrom(ds, ti, i) ==
    IF ti > Len(ds.objectDecalTypes) THEN ds
    ELSE IF i > Len(ds.objectDecalTypes[ti].objectDecals) THEN TeardownFrom(ds, ti + 1, 1)
    ELSE
        LET dc == ds.objectDecalTypes[ti].objectDecals[i]
            decal == ds.decals[dc]
            ev == [NoEvent EXCEPT !.kind = "destroy", !.decal = TRUE, !.t = dc,
                                  !.live = decal.live, !.owner = decal.owner,
                                  !.gbOwner = decal.gbOwner, !.before = decal.alpha,
                                  !.alpha = decal.alpha]
        IN With([ds EXCEPT !.groundDecal = IF decal.owner # 0 THEN [@ EXCEPT ![decal.owner] = 0] ELSE @,
                           !.ghostDecal = IF decal.gbOwner # 0 THEN [@ EXCEPT ![decal.gbOwner] = 0] ELSE @,
                           !.decals = PoolFree(@, dc),
                           !.events = Append(@, ev)],
                LAMBDA next : TeardownFrom(next, ti, i + 1))

\* ------------------------------------------------------------------ the decal state as one record
DecalState ==
    [decals |-> decals, allocs |-> allocs, objectDecalTypes |-> objectDecalTypes, groundDecal |-> groundDecal,
     groundDecalType |-> groundDecalType, ghostDecal |-> ghostDecal, alloc |-> -1,
     lookup |-> "", events |-> <<>>]

SetDecalState(ds) ==
    /\ decals' = ds.decals
    /\ allocs' = ds.allocs
    /\ objectDecalTypes' = ds.objectDecalTypes
    /\ groundDecal' = ds.groundDecal
    /\ groundDecalType' = ds.groundDecalType
    /\ ghostDecal' = ds.ghostDecal

\* ------------------------------------------------------------------ DrawDecals
\* ds and st are the decal and the scar state on entry; the history of the
\* frame is handed from one pass to the next and ends up in st.events
DrawDecals_ScarsFirst(ds, st, ages, view, dt, inView) ==
    With(AddScars(st),
         LAMBDA added : With(DrawScars(added),
         LAMBDA st1 :
             With(DrawObjectDecals([ds EXCEPT !.events = st1.events], ages, view, dt, inView),
                  LAMBDA ds1 : [ds |-> ds1, st |-> [st1 EXCEPT !.events = ds1.events]])))

\* DrawObjectDecals(); AddScars(); DrawScars();
DrawDecals(ds, st, ages, view, dt, inView) ==
    With(DrawObjectDecals(ds, ages, view, dt, inView),
         LAMBDA ds1 :
             With(AddScars([st EXCEPT !.events = ds1.events]),
                  LAMBDA added :
                      With(DrawScars(added), LAMBDA st1 : [ds |-> ds1, st |-> st1])))

\* ------------------------------------------------------------------ the handlers as actions
envVars == <<frameNum, drawDecals, haveGLSL>>

ExplosionOf(positions, damages, reaches) ==
    /\ lastScarOverlapTest + Len(addedScars) < MaxPasses
    /\ \E pos \in positions, damage \in damages, reach \in reaches :
          /\ SetScarState(IF drawDecals
                          THEN AddExplosion(ScarState, pos, damage, reach[1], reach[2])
                          ELSE ScarState)
          /\ op' = [name |-> "AddExplosion",
                    gated |-> ~drawDecals \/ ~PassesGates(reach[1], reach[2]),
                    id |-> GetScarID(freeScarIDs), obj |-> 0, arg |-> "", old |-> 0]
    /\ UNCHANGED <<calc, envVars, decalVars, simVars>>

ExplosionOccurred == ExplosionOf(ExplosionPos, ExplosionDamage, ExplosionReach)

\* event.weaponDef of an explosion: nullptr, or a weapon with
\* visuals.explosionScar set or cleared
Weapons == {"none", "scar", "noscar"}

ProducesScar_Always(weapon) == TRUE

\* the test ExplosionOccurred makes before it calls AddExplosion
ProducesScar(weapon) == ~(weapon # "none" /\ weapon = "noscar")

\* ExplosionOccurred with the weapon of the event; the history keeps the
\* weapon, event.craterAreaOfEffect and the altitude over ground
ExplosionBy(weapons, positions, damages, reaches) ==
    /\ lastScarOverlapTest + Len(addedScars) < MaxPasses
    /\ \E weapon \in weapons, pos \in positions, damage \in damages, reach \in reaches :
          /\ SetScarState(IF ProducesScar(weapon) /\ drawDecals
                          THEN AddExplosion(ScarState, pos, damage, reach[1], reach[2])
                          ELSE ScarState)
          /\ op' = [name |-> "ExplosionOccurred",
                    gated |-> ~ProducesScar(weapon) \/ ~drawDecals
                              \/ ~PassesGates(reach[1], reach[2]),
                    id |-> GetScarID(freeScarIDs), obj |-> 0, arg |-> weapon, old |-> 0,
                    damage |-> damage, radius |-> reach[1], altitude |-> reach[2]]
    /\ UNCHANGED <<calc, envVars, decalVars, simVars>>

\* Draw: DrawObjectDecals, then AddScars and DrawScars; the render frame
\* counter moves on once the frame is over
DrawOf(unitViews, featureViews, inViews) ==
    /\ \E view \in ViewsOf(objAlive, unitViews, featureViews), dt \in FrameTimes,
          inView \in (IF \E s \in Slots : decals[s].live THEN inViews ELSE {TRUE}) :
          \E r \in {IF drawDecals /\ haveGLSL
                    THEN DrawDecals(DecalState, ScarState, ghostAge, view, dt, inView)
                    ELSE [ds |-> DecalState, st |-> ScarState]} :
             /\ SetDecalState(r.ds)
             /\ SetScarState(r.st)
    /\ ghostAge' = [g \in Ghosts |-> IF ghostAlive[g] THEN Min(2, ghostAge[g] + 1) ELSE ghostAge[g]]
    /\ op' = [name |-> "Draw", gated |-> ~(drawDecals /\ haveGLSL), id |-> -1, obj |-> 0, arg |-> "", old |-> 0]
    /\ UNCHANGED <<calc, envVars, objAlive, ghostAlive>>

Draw == DrawOf(UnitViews, FeatureViews, BOOLEAN)

\* the simulation advances to a later frame
TickTo(frames) ==
    /\ \E f \in frames : f > frameNum /\ frameNum' = f
    /\ events' = <<>>
    /\ op' = [name |-> "Tick", gated |-> FALSE, id |-> -1, obj |-> 0, arg |-> "", old |-> 0]
    /\ UNCHANGED <<calc, scarVars, drawDecals, haveGLSL, decalVars, simVars>>

Tick == TickTo(Frames)

SetDrawDecals ==
    /\ drawDecals' = ~drawDecals
    /\ events' = <<>>
    /\ op' = [name |-> "SetDrawDecals", gated |-> FALSE, id |-> -1, obj |-> 0, arg |-> "", old |-> 0]
    /\ UNCHANGED <<calc, scarVars, frameNum, haveGLSL, decalVars, simVars>>

\* the names GetSolidObjectDecalType is asked for; "Rubble" has no texture file
TypeNames == {"Pad", "pad", "PAD", "Slab", "slab", "SLAB", "Rubble"}

\* GetSolidObjectDecalType called with a name
TypeRequested ==
    \E name \in TypeNames :
        LET got == GetSolidObjectDecalType(objectDecalTypes, drawDecals, name) IN
        /\ objectDecalTypes' = got.types
        /\ events' = <<>>
        /\ op' = [name |-> "GetSolidObjectDecalType", gated |-> ~drawDecals, id |-> got.index,
                  obj |-> 0, arg |-> name, old |-> 0]
        /\ UNCHANGED <<calc, scarVars, envVars, simVars, decals, allocs, groundDecal,
                       groundDecalType, ghostDecal>>

\* MoveSolidObject as called for an object the simulation holds
MoveObject(name, object) ==
    \E alloc \in PoolAlloc(decals) :
        LET ds == MoveSolidObject(DecalState, drawDecals, object, alloc)
        IN /\ allocs < MaxAllocs
           /\ SetDecalState(ds)
           /\ events' = <<>>
           /\ op' = [name |-> name, gated |-> ds.alloc = -1, id |-> ds.alloc, obj |-> object,
                     arg |-> "",
                     old |-> IF op.name = "RemoveSolidObject" /\ op.obj = object THEN op.id ELSE 0]

\* RenderUnitCreated, RenderFeatureCreated: AddSolidObject on a new object
ObjectCreated ==
    \E object \in Objects :
        /\ ~objAlive[object]
        /\ groundDecal[object] = 0
        /\ MoveObject("AddSolidObject", object)
        /\ objAlive' = [objAlive EXCEPT ![object] = TRUE]
        /\ UNCHANGED <<calc, scarVars, envVars, ghostAge, ghostAlive>>

\* UnitMoved, FeatureMoved, UnitUnloaded
ObjectMoved ==
    \E object \in Objects :
        /\ objAlive[object]
        /\ MoveObject("MoveSolidObject", object)
        /\ UNCHANGED <<calc, scarVars, envVars, simVars>>

\* RenderUnitDestroyed, RenderFeatureDestroyed
ObjectDestroyed ==
    \E object \in Objects :
        /\ objAlive[object]
        /\ SetDecalState(RemoveSolidObject(DecalState, object, 0))
        /\ objAlive' = [objAlive EXCEPT ![object] = FALSE]
        /\ events' = <<>>
        /\ op' = [name |-> "RemoveSolidObject", gated |-> groundDecal[object] = 0, id |-> groundDecal[object], obj |-> object, arg |-> "", old |-> 0]
        /\ UNCHANGED <<calc, scarVars, envVars, ghostAge, ghostAlive>>

\* GhostCreated as the object dies: a new ghost record takes the decal over
GhostCreated ==
    \E object \in Objects, gb \in Ghosts, age \in 0 .. 2 :
        /\ objAlive[object] /\ ~ghostAlive[gb]
        /\ SetDecalState(RemoveSolidObject([DecalState EXCEPT !.ghostDecal[gb] = 0], object, gb))
        /\ objAlive' = [objAlive EXCEPT ![object] = FALSE]
        /\ ghostAlive' = [ghostAlive EXCEPT ![gb] = TRUE]
        /\ ghostAge' = [ghostAge EXCEPT ![gb] = age]
        /\ events' = <<>>
        /\ op' = [name |-> "GhostCreated", gated |-> groundDecal[object] = 0, id |-> groundDecal[object], obj |-> object, arg |-> "", old |-> 0]
        /\ UNCHANGED <<calc, scarVars, envVars>>

\* the unit drawer draws a ghost in the current frame
GhostDrawn ==
    \E gb \in Ghosts :
        /\ ghostAlive[gb] /\ ghostAge[gb] # 0
        /\ ghostAge' = [ghostAge EXCEPT ![gb] = 0]
        /\ events' = <<>>
        /\ op' = [name |-> "GhostDrawn", gated |-> FALSE, id |-> gb, obj |-> 0, arg |-> "", old |-> 0]
        /\ UNCHANGED <<calc, scarVars, envVars, decalVars, objAlive, ghostAlive>>

GhostDestroyedEvent ==
    \E gb \in Ghosts :
        /\ ghostAlive[gb]
        /\ SetDecalState([GhostDestroyed(DecalState, gb, ghostAge[gb]) EXCEPT !.ghostDecal[gb] = 0])
        /\ ghostAlive' = [ghostAlive EXCEPT ![gb] = FALSE]
        /\ ghostAge' = [ghostAge EXCEPT ![gb] = 0]
        /\ events' = <<>>
        /\ op' = [name |-> "GhostDestroyed", gated |-> ghostDecal[gb] = 0, id |-> ghostDecal[gb], obj |-> 0, arg |-> "", old |-> 0]
        /\ UNCHANGED <<calc, scarVars, envVars, objAlive>>

\* UnitLoaded
UnitLoaded ==
    \E object \in Objects :
        /\ objAlive[object] /\ ObjectIsUnit(object)
        /\ SetDecalState(ForceRemoveSolidObject(DecalState, object))
        /\ events' = <<>>
        /\ op' = [name |-> "ForceRemoveSolidObject", gated |-> groundDecal[object] = 0, id |-> groundDecal[object], obj |-> object, arg |-> "", old |-> 0]
        /\ UNCHANGED <<calc, scarVars, envVars, simVars>>

\* the handler is destroyed: the destructor body runs, then the members go, the
\* decal-type lists with them; the pool and the scar table are static
Constructed == op.name # "~CGroundDecalHandler"

Teardown ==
    /\ Constructed
    /\ \E ds \in {TeardownFrom(DecalState, 1, 1)} :
          /\ SetDecalState([ds EXCEPT !.objectDecalTypes = <<>>])
          /\ events' = ds.events
    /\ op' = [name |-> "~CGroundDecalHandler", gated |-> FALSE, id |-> -1, obj |-> 0, arg |-> "", old |-> 0]
    /\ UNCHANGED <<calc, scarVars, envVars, simVars>>

\* ScarOverlapSize applied to a pair of scars, in both orders
ComputeOverlap ==
    /\ calc.phase = "input"
    /\ calc' = [calc EXCEPT !.phase = "done",
                            !.st = ScarOverlapSize(calc.s, calc.t),
                            !.ts = ScarOverlapSize(calc.t, calc.s)]
    /\ events' = <<>>
    /\ op' = [name |-> "ScarOverlapSize", gated |-> FALSE, id |-> -1, obj |-> 0, arg |-> "", old |-> 0]
    /\ UNCHANGED <<scarVars, envVars, decalVars, simVars>>

\* ------------------------------------------------------------------ the state after construction
\* glsl: whether LoadDecalShaders found globalRendering->haveGLSL set
InitHandlerOf(glsl) ==
    /\ scars = [i \in ScarIDs |-> ResetScar]
    /\ freeScarIDs = [i \in 1 .. MaxScarCount |-> i - 1]
    /\ usedScarIDs = <<>>
    /\ addedScars = <<>>
    /\ scarField = [c \in Cells |-> <<>>]
    /\ lastScarOverlapTest = 0
    /\ frameNum = 0
    /\ drawDecals = TRUE
    /\ haveGLSL = glsl
    /\ decals = [s \in Slots |-> NoDecal]
    /\ allocs = 0
    /\ objectDecalTypes = <<>>
    /\ groundDecal = [o \in Objects |-> 0]
    /\ groundDecalType = [d \in Defs |-> -1]
    /\ objAlive = [o \in Objects |-> FALSE]
    /\ ghostDecal = [g \in Ghosts |-> 0]
    /\ ghostAge = [g \in Ghosts |-> 0]
    /\ ghostAlive = [g \in Ghosts |-> FALSE]
    /\ events = <<>>
    /\ op = [name |-> "Init", gated |-> FALSE, id |-> -1, obj |-> 0, arg |-> "", old |-> 0]

InitHandler == InitHandlerOf(TRUE)

\* the bounding rectangles AddExplosion can give a scar, in heightmap quads
Rects ==
    {[x1 |-> a, x2 |-> b, y1 |-> c, y2 |-> d] :
        a \in 0 .. MaxCoord, b \in 0 .. MaxCoord, c \in 0 .. MaxCoord, d \in 0 .. MaxCoord}
ScarRects == {r \in Rects : r.x1 <= r.x2 /\ r.y1 <= r.y2}

NoCalc == [phase |-> "idle", s |-> [x1 |-> 0, x2 |-> 0, y1 |-> 0, y2 |-> 0],
           t |-> [x1 |-> 0, x2 |-> 0, y1 |-> 0, y2 |-> 0], st |-> 0, ts |-> 0]

Init == InitHandler /\ calc = NoCalc

\* any two scars handed to ScarOverlapSize
InitOverlap ==
    /\ InitHandler
    /\ calc \in {[NoCalc EXCEPT !.phase = "input", !.s = s, !.t = t] :
                    s \in ScarRects, t \in ScarRects}

\* the scar table under explosions, frames and the clock
Next == ExplosionOccurred \/ Draw \/ Tick

Spec == Init /\ [][Next]_vars

\* the object decals under the simulation's object and ghost events and frames
NextDecals ==
    \/ ObjectCreated \/ ObjectMoved \/ ObjectDestroyed \/ UnitLoaded
    \/ GhostCreated \/ GhostDrawn \/ GhostDestroyedEvent
    \/ Draw

SpecDecals == Init /\ [][NextDecals]_vars

\* the same with frames that keep being rendered
SpecDecalsRendering == SpecDecals /\ WF_vars(Draw)

\* the decals from construction to the destruction of the handler
NextLifetime ==
    \/ Constructed /\ ObjectCreated
    \/ Constructed /\ ObjectMoved
    \/ Constructed /\ ObjectDestroyed
    \/ Constructed /\ UnitLoaded
    \/ Constructed /\ GhostCreated
    \/ Constructed /\ GhostDrawn
    \/ Constructed /\ GhostDestroyedEvent
    \/ Constructed /\ Draw
    \/ Teardown

SpecLifetime == Init /\ [][NextLifetime]_vars

\* explosions that all land in one cell of the scar field, a small crater
\* inside the rectangle of a large one
ExplosionNearby == ExplosionOf({<<24, 24>>}, ExplosionDamage, {<<48, 0>>})

NextCrowded == ExplosionNearby \/ Draw \/ Tick

SpecCrowded == Init /\ [][NextCrowded]_vars

\* explosions in the middle of the map and at its right edge, where the
\* rectangle of a small crater is clamped to no width
ExplosionAtEdge == ExplosionOf({<<248, 24>>, <<504, 24>>}, ExplosionDamage, {<<48, 0>>})

NextEdge == ExplosionAtEdge \/ Draw \/ Tick

SpecEdge == Init /\ [][NextEdge]_vars

\* the decal-type registry under lookups by name, object creation and the toggle
NextTypes == TypeRequested \/ SetDrawDecals \/ ObjectCreated \/ ObjectDestroyed

SpecTypes == Init /\ [][NextTypes]_vars

\* explosions of every kind of weapon, with no damage or some, at altitudes
\* and radii on both sides of each gate of AddExplosion
WeaponDamage == {0, 40}
WeaponReach == ExplosionReach \cup {<<48, 43>>, <<48, 44>>, <<5, 0>>}

ExplosionByWeapon == ExplosionBy(Weapons, {<<8, 8>>}, WeaponDamage, WeaponReach)

NextWeapons == ExplosionByWeapon \/ Draw

SpecWeapons == Init /\ [][NextWeapons]_vars

\* explosions without damage, whose scars live for one tick, among others
ExplosionBrief == ExplosionOf({<<8, 8>>}, {0, 20}, {<<48, 0>>})

NextBrief == ExplosionBrief \/ Draw \/ Tick

SpecBrief == Init /\ [][NextBrief]_vars

\* the scar ids with or without a decal shader and with the toggle switched
\* at any time; the explosions happen in the first tick, so that the clock
\* gets past the lifeTime of every scar
InitAnyShader == (\E glsl \in BOOLEAN : InitHandlerOf(glsl)) /\ calc = NoCalc

ExplosionAtStart ==
    /\ frameNum = 0
    /\ ExplosionOf({<<8, 8>>}, {0, 20}, {<<48, 0>>})

NextScarIDs == ExplosionAtStart \/ Draw \/ Tick \/ SetDrawDecals

SpecScarIDs == InitAnyShader /\ [][NextScarIDs]_vars

\* the same with renderFrame called again and again and a clock that advances
SpecScarIDsRendering == SpecScarIDs /\ WF_vars(Draw) /\ WF_vars(Tick)

\* objects whose definitions are malformed: object 1 has a definition that
\* uses no ground decal, object 2 one whose texture cannot be loaded
MalformedDef(o) == o + 2

MoveMalformed(name, object) ==
    \E alloc \in PoolAlloc(decals) :
        \E ds \in {MoveSolidObjectFor(DecalState, drawDecals, object,
                                      MalformedDef(object), alloc)} :
            /\ SetDecalState(ds)
            /\ events' = <<>>
            /\ op' = [name |-> name, gated |-> ds.alloc = -1, id |-> ds.alloc,
                      obj |-> object, arg |-> ds.lookup, old |-> 0]

MalformedCreated ==
    \E object \in Objects :
        /\ ~objAlive[object]
        /\ groundDecal[object] = 0
        /\ MoveMalformed("AddSolidObject", object)
        /\ objAlive' = [objAlive EXCEPT ![object] = TRUE]
        /\ UNCHANGED <<calc, scarVars, envVars, ghostAge, ghostAlive>>

MalformedMoved ==
    \E object \in Objects :
        /\ objAlive[object]
        /\ MoveMalformed("MoveSolidObject", object)
        /\ UNCHANGED <<calc, scarVars, envVars, simVars>>

NextMalformed ==
    \/ TypeRequested
    \/ SetDrawDecals
    \/ MalformedCreated
    \/ MalformedMoved
    \/ ObjectDestroyed

SpecMalformed == Init /\ [][NextMalformed]_vars

\* every event and the render frame, with the toggle switched at any time; the
\* frame sees every live owner in full, and explosions are of one kind
Frame == DrawOf({[seen |-> TRUE, value |-> AlphaFull]}, {[seen |-> TRUE, value |-> AlphaFull]}, {TRUE})

Explosion ==
    /\ Len(usedScarIDs) + Len(addedScars) < MaxToggleScars
    /\ ExplosionOf({<<248, 24>>}, {40}, {<<48, 0>>})

NextToggle ==
    \/ SetDrawDecals
    \/ Explosion
    \/ Frame
    \/ ObjectCreated
    \/ ObjectMoved
    \/ ObjectDestroyed
    \/ UnitLoaded
    \/ GhostCreated
    \/ GhostDrawn
    \/ GhostDestroyedEvent

SpecToggle == Init /\ [][NextToggle]_vars

\* frames that have object decals and scars to go through: objects come and
\* go, and craters of one size land on one another
ExplosionAgain == ExplosionOf({<<24, 24>>}, {40}, {<<48, 0>>})

NextFrame ==
    \/ ObjectCreated
    \/ ObjectDestroyed
    \/ ExplosionAgain
    \/ Frame

SpecFrame == Init /\ [][NextFrame]_vars

\* ScarOverlapSize on every pair of rectangles
NextOverlap == ComputeOverlap

SpecOverlap == InitOverlap /\ [][NextOverlap]_vars

\* ------------------------------------------------------------------ properties
EventSet == Range(events)
EventsOf(kinds) == {e \in EventSet : e.kind \in kinds}
Committed(id) == Count(usedScarIDs, id) > 0

Disjoint(v, w) == Range(v) \cap Range(w) = {}

\* C1: the free, pending and used id lists are duplicate-free and pairwise
\* disjoint, so no id handed out by GetScarID is still held by a pending or
\* committed scar.
C1_NoDoubleAllocation ==
    /\ NoDup(freeScarIDs) /\ NoDup(addedScars) /\ NoDup(usedScarIDs)
    /\ Disjoint(freeScarIDs, addedScars)
    /\ Disjoint(freeScarIDs, usedScarIDs)
    /\ Disjoint(addedScars, usedScarIDs)

\* an id is handed out again after more scars were committed than the table holds
C1_Witness ==
    /\ op.name = "AddExplosion" /\ op.id >= 0 /\ ~op.gated
    /\ lastScarOverlapTest >= MaxScarCount
    /\ usedScarIDs # <<>>

\* C2: in the overlap pass of a new scar S, an existing scar T is charged or
\* evicted only if S.lifeTime >= T.lifeTime; a committed, unexpired T that
\* loses its place or gains overlap in a frame does so to a pending scar that
\* lives at least as long.
C2_EvictOnlyShorterOrEqual ==
    /\ [](\A e \in EventsOf({"test", "charge", "evict"}) : e.sLife >= e.tLife)
    /\ [][\A t \in Range(usedScarIDs) :
            (/\ ~Expired(scars[t], frameNum)
             /\ (~(t \in Range(usedScarIDs')) \/ scars'[t].overdrawn # scars[t].overdrawn))
            => \E s \in Range(addedScars) : scars[s].lifeTime >= scars[t].lifeTime]_vars

\* a longer-lived scar met a new scar lying over all of it, and stayed
C2_Witness ==
    \E e \in EventsOf({"skip"}) :
        /\ e.tLife > e.sLife
        /\ Committed(e.t)
        /\ e.ov >= scars[e.t].basesize /\ scars[e.t].basesize > 0
        /\ scars[e.t].overdrawn = e.before

\* C3: right after RemoveScar on a committed scar (expiry or eviction) its id
\* is in no cell of the scar field, is not in the used list and is in the
\* free list exactly once; the same holds when the frame is over.
C3_RemovedIsGone ==
    \A e \in EventsOf({"evict", "expire"}) :
        /\ e.inCells = 0 /\ e.inUsed = 0 /\ e.inFree = 1
        /\ InCells(scarField, e.t) = 0
        /\ Count(usedScarIDs, e.t) = 0
        /\ Count(freeScarIDs, e.t) = 1

\* an eviction and an expiry in one frame, the evicted scar lying over two cells
C3_Witness ==
    /\ \E e \in EventsOf({"evict"}) : e.span >= 2
    /\ EventsOf({"expire"}) # {}

FrameDrawn == op.name = "Draw" /\ ~op.gated

\* C4 as stated: a committed scar whose lifeTime equals the current tick is
\* removed by that frame's sweep, so none is left in the used list after it.
C4_ExpiredAtLifeTime ==
    FrameDrawn => \A t \in Range(usedScarIDs) : scars[t].lifeTime # frameNum

\* C4 as amended: the sweep removes exactly the committed scars whose lifeTime
\* is strictly below the current tick; a scar whose lifeTime equals the tick is
\* kept and drawn in that frame and goes in the first sweep at a later tick.
C4_ExpiredAfterLifeTime ==
    /\ \A e \in EventsOf({"expire"}) : e.tLife < e.frame
    /\ \A e \in EventsOf({"draw"}) : e.tLife >= e.frame /\ Committed(e.t)
    /\ FrameDrawn => \A t \in Range(usedScarIDs) :
                         /\ scars[t].lifeTime >= frameNum
                         /\ \E e \in EventsOf({"draw"}) : e.t = t

\* a scar swept at the very tick of its lifeTime is still committed
C4_Witness ==
    /\ FrameDrawn
    /\ \E e \in EventsOf({"draw"}) :
           e.tLife = e.frame /\ Committed(e.t) /\ scars[e.t].lifeTime = frameNum

C6_DebtToLongerLived ==
    \A e \in EventsOf({"charge"}) : e.tLife >= e.sLife

\* C6 as amended: overlap debt goes only to the existing scar T and only when
\* T.lifeTime <= S.lifeTime, that is to the shorter-or-equal-lived party; the
\* new scar S is never charged, in its own pass or another's of that frame.
C6_DebtToShorterOrEqualLived ==
    /\ [](\A e \in EventsOf({"charge"}) :
             e.tLife <= e.sLife /\ e.after >= e.before /\ e.s # e.t)
    /\ [](\A s \in Range(addedScars) : scars[s].overdrawn = 0)
    /\ [][\A s \in Range(addedScars) :
             s \in Range(usedScarIDs') => scars'[s].overdrawn = 0]_vars
    /\ [][\A t \in Range(usedScarIDs) :
             (t \in Range(usedScarIDs') /\ scars'[t].overdrawn # scars[t].overdrawn)
             => \E s \in Range(addedScars) : scars[t].lifeTime <= scars[s].lifeTime]_vars

\* a strictly shorter-lived scar was charged by a longer-lived new one and is still there
C6_Witness ==
    \E e \in EventsOf({"charge"}) :
        e.tLife < e.sLife /\ e.after > e.before /\ Committed(e.t) /\ scars[e.t].overdrawn = e.after

\* C8: AddExplosion with no free id changes nothing of the scar state; one
\* that passes the gates with a free id at hand moves exactly that id, the
\* last of the free list, to the end of the pending list and touches no other
\* record, list or cell.
C8_ExplosionTakesOneIdOrNone ==
    [][op'.name = "AddExplosion" =>
         IF op'.gated \/ freeScarIDs = <<>>
         THEN UNCHANGED scarVars
         ELSE /\ freeScarIDs = Append(freeScarIDs', op'.id)
              /\ addedScars' = Append(addedScars, op'.id)
              /\ scars'[op'.id].id = op'.id
              /\ \A i \in ScarIDs \ {op'.id} : scars'[i] = scars[i]
              /\ UNCHANGED <<usedScarIDs, scarField, lastScarOverlapTest>>]_vars

\* an explosion that passed the gates found the table full and was dropped
C8_Witness ==
    /\ op.name = "AddExplosion" /\ ~op.gated /\ op.id = -1
    /\ freeScarIDs = <<>>
    /\ Len(addedScars) + Len(usedScarIDs) = MaxScarCount

\* C7: ScarOverlapSize is symmetric: for every two scar rectangles S and T,
\* those sharing an edge coordinate and those where one contains the other
\* included, ScarOverlapSize(S, T) = ScarOverlapSize(T, S).
C7_OverlapSymmetric ==
    calc.phase = "done" => calc.st = calc.ts

\* C9: when the pool has no chunk left, alloc returns the null result and
\* MoveSolidObject creates nothing: every decal-type list is as long as before
\* and holds what it held, no chunk becomes live, and the handler returns.
MoveRan == op.name \in {"AddSolidObject", "MoveSolidObject"} /\ ~op.gated
LiveSlots(pool) == {s \in Slots : pool[s].live}
C9_ExhaustedPoolCreatesNothing ==
    [][(op'.name \in {"AddSolidObject", "MoveSolidObject"} /\ ~op'.gated /\ op'.id = 0)
         => /\ LiveSlots(decals) = Slots
            /\ LiveSlots(decals') = Slots
            /\ \A i \in 1 .. Len(objectDecalTypes') :
                  objectDecalTypes'[i].objectDecals =
                      IF i <= Len(objectDecalTypes) THEN objectDecalTypes[i].objectDecals
                      ELSE <<>>
            /\ \A s \in Slots : decals'[s].owner # 0 => decals'[s].owner = decals[s].owner
            /\ groundDecal' = groundDecal]_vars

\* the pool ran out under a move of an object that still had its decal
C9_Witness ==
    /\ MoveRan /\ op.id = 0
    /\ \E o \in Objects : objAlive[o] /\ groundDecal[o] # 0
    /\ \E i \in 1 .. Len(objectDecalTypes) : Len(objectDecalTypes[i].objectDecals) > 0

\* C10: the per-frame sweep never frees a decal whose owner is set: every
\* decal GatherDecalsForType frees has owner = null when it is freed, and a
\* live decal with an owner is still live after any one handler.
C10_FreedOnlyWithoutOwner ==
    /\ [](\A k \in 1 .. Len(events) : events[k].kind = "free" => events[k].owner = 0)
    /\ [][\A s \in Slots : (decals[s].live /\ decals[s].owner # 0) => decals'[s].live]_vars

\* a frame freed a faded decal while a decal with an owner stayed
C10_Witness ==
    /\ op.name = "Draw"
    /\ \E k \in 1 .. Len(events) : events[k].kind = "free" /\ events[k].alpha < 0
    /\ \E s \in Slots : decals[s].live /\ decals[s].owner # 0

\* the turns of GatherDecalsForType in the last handler
DecalEvents == {events[k] : k \in {j \in 1 .. Len(events) : events[j].decal}}

\* C11 as stated: in the sweep the opacity of a decal is clamped to >= 0 before
\* the fade-out test, so the test on a decal without owner never sees a
\* negative opacity.
C11_FadeOutTestNeverSeesNegative ==
    \A e \in DecalEvents : e.owner = 0 => e.alpha >= 0

\* C11 as amended: the fade-out test is taken on the opacity as decayed, not
\* clamped: a decal is freed exactly when the test sees a negative opacity, only
\* a decal without owner gets there, the opacity an owner gives is >= 0, and no
\* decal left after a handler has a negative opacity.
C11_FreedOnNegativeOpacity ==
    /\ \A e \in DecalEvents :
          /\ e.kind = "free" <=> e.alpha < 0
          /\ e.alpha < 0 => e.owner = 0 /\ e.gbOwner = 0 /\ e.before >= 0
          /\ e.owner # 0 => e.alpha >= 0
    /\ \A s \in Slots : decals[s].live => decals[s].alpha >= 0

\* a frame in which a decal at opacity 0 decayed below it and was freed, and an
\* owner set the opacity of another
C11_Witness ==
    /\ op.name = "Draw" /\ ~op.gated
    /\ \E e \in DecalEvents : e.kind = "free" /\ e.before = 0 /\ e.alpha < 0
    /\ \E e \in DecalEvents : e.owner # 0 /\ e.alpha > 0 /\ e.alpha # e.before

\* the chunks in the decal-type lists, as one sequence
RECURSIVE Listed(_, _)
Listed(types, i) ==
    IF i > Len(types) THEN <<>> ELSE types[i].objectDecals \o Listed(types, i + 1)

\* C12: when an object with an active decal is destroyed (RemoveSolidObject
\* without ghost) and re-created right after (AddSolidObject), the old decal has
\* its owner cleared and stays, unchanged and allocated, in its type list, and
\* the record the object gets is newly allocated and is not the old one.
C12_RecreatedObjectGetsNewDecal ==
    [][(/\ op.name = "RemoveSolidObject" /\ ~op.gated /\ decals[op.id].live
        /\ op'.name = "AddSolidObject" /\ ~op'.gated /\ op'.obj = op.obj)
         => /\ decals[op.id].owner = 0 /\ decals[op.id].gbOwner = 0
            /\ groundDecal[op.obj] = 0
            /\ decals'[op.id] = decals[op.id]
            /\ Count(Listed(objectDecalTypes', 1), op.id) = 1
            /\ groundDecal'[op.obj] = op'.id
            /\ op'.id # 0 =>
                  /\ op'.id # op.id
                  /\ ~decals[op'.id].live
                  /\ decals'[op'.id].live /\ decals'[op'.id].owner = op.obj
                  /\ Count(Listed(objectDecalTypes', 1), op'.id) = 1]_vars

\* an object was re-created right after it was destroyed: its old decal is
\* without owner in a list, and the object has another
C12_Witness ==
    /\ op.name = "AddSolidObject" /\ ~op.gated /\ op.old # 0 /\ op.id # 0
    /\ decals[op.old].live /\ decals[op.old].owner = 0
    /\ groundDecal[op.obj] = op.id /\ decals[op.id].owner = op.obj
    /\ Count(Listed(objectDecalTypes, 1), op.old) = 1

\* a decal that has neither an owner nor a ghost
Orphaned(s) == decals[s].live /\ decals[s].owner = 0 /\ decals[s].gbOwner = 0

\* C13: while frames keep being rendered, every decal with neither owner nor
\* ghost is eventually freed to the pool, whatever its opacity (0 exactly, as
\* ForceRemoveSolidObject and GhostDestroyed leave it, included) and whatever
\* decay speed its definition has; a decal that gets a ghost again in between
\* is let off.
C13_OrphanEventuallyFreed ==
    \A s \in Slots : Orphaned(s) ~> ~Orphaned(s)

\* C13 for the definitions with a positive decay speed only
C13_FadingOrphanEventuallyFreed ==
    \A s \in Slots : (Orphaned(s) /\ decals[s].alphaFalloff > 0) ~> ~Orphaned(s)

\* the last handler was GetSolidObjectDecalType, called with decals enabled
TypeLookupRan == op.name = "GetSolidObjectDecalType" /\ ~op.gated

\* C14: the value GetSolidObjectDecalType returns when the texture fails to
\* load differs from the value it returns for the same name when decals are
\* disabled.
C14_LoadFailureNotAsDisabled ==
    (TypeLookupRan /\ op.id < 0)
        => op.id # GetSolidObjectDecalType(objectDecalTypes, FALSE, op.arg).index

\* C15: the registry holds at most one entry per lower-cased name; a lookup
\* that succeeds returns the index of the entry with the lower-cased name, so
\* names equal but for case get the same index; no handler changes the name at
\* an index or removes an entry.
C15_OneTypePerLowerName ==
    /\ [](\A i, j \in 1 .. Len(objectDecalTypes) :
             /\ objectDecalTypes[i].name = StringToLower(objectDecalTypes[i].name)
             /\ i # j => objectDecalTypes[i].name # objectDecalTypes[j].name)
    /\ [][/\ Len(objectDecalTypes') >= Len(objectDecalTypes)
          /\ \A i \in 1 .. Len(objectDecalTypes) :
                objectDecalTypes'[i].name = objectDecalTypes[i].name
          /\ (op'.name = "GetSolidObjectDecalType" /\ op'.id >= 0)
                => /\ op'.id < Len(objectDecalTypes')
                   /\ objectDecalTypes'[op'.id + 1].name = StringToLower(op'.arg)
                   /\ Len(objectDecalTypes') > Len(objectDecalTypes)
                         => \A i \in 1 .. Len(objectDecalTypes) :
                               objectDecalTypes[i].name # StringToLower(op'.arg)]_vars

\* a lookup in another case found the entry made first, with a second entry
\* made since
C15_Witness ==
    /\ TypeLookupRan /\ op.id = 0 /\ Len(objectDecalTypes) = 2
    /\ op.arg # objectDecalTypes[1].name
    /\ op.arg # "Pad" /\ op.arg # "Slab"

\* C16, as stated: while the decals toggle is off, no event and no render frame
\* changes a decal record, a decal-type list or any part of the scar state
C16_OffChangesNothing ==
    [][(~drawDecals /\ op'.name # "SetDrawDecals") =>
          /\ scarVars' = scarVars
          /\ decals' = decals
          /\ objectDecalTypes' = objectDecalTypes]_vars

Detaches == {"RemoveSolidObject", "GhostCreated", "ForceRemoveSolidObject", "GhostDestroyed"}

\* C16, amended: while the toggle is off, an explosion, an object created or
\* moved and a render frame change nothing; an object destroyed, a unit loaded
\* and a ghost created or destroyed still detach the one decal of that object
\* or ghost (its owner, ghost owner and opacity, and the back pointers), and
\* nothing is allocated, freed, listed, unlisted, or changed in the scar state
C16_OffOnlyDetaches ==
    [][(~drawDecals /\ op'.name # "SetDrawDecals") =>
          /\ scarVars' = scarVars
          /\ allocs' = allocs
          /\ objectDecalTypes' = objectDecalTypes
          /\ groundDecalType' = groundDecalType
          /\ \A s \in Slots : /\ decals'[s].live = decals[s].live
                               /\ decals'[s].alphaFalloff = decals[s].alphaFalloff
          /\ op'.name \notin Detaches => decalVars' = decalVars
          /\ op'.name \in Detaches =>
                 \A s \in Slots : decals'[s] # decals[s] => s = op'.id]_vars

\* an object with a decal was destroyed while the toggle was off, and the
\* decal lost its owner
C16_Witness ==
    /\ ~drawDecals
    /\ op.name = "RemoveSolidObject" /\ op.id # 0
    /\ decals[op.id].live /\ decals[op.id].owner = 0
    /\ Len(usedScarIDs) > 0

\* the turns of the DrawScars sweep in the last frame, in order
SweepEvents == SelectSeq(events, LAMBDA e : ~e.decal /\ e.kind \in {"expire", "draw"})

\* C17: in every rendered frame the sweep takes exactly one turn on every scar
\* that is committed when it starts (those committed before and those AddScars
\* has just committed, less the ones AddScars evicted), also when an earlier
\* entry is removed mid-sweep; a turn removes the scar if its lifeTime is
\* below the tick and draws it otherwise, so no expired scar is drawn and none
\* is left in the used list.
C17_SweepRemovesEveryExpired ==
    [][(op'.name = "Draw" /\ ~op'.gated) =>
          LET sweep == SelectSeq(events', LAMBDA e : ~e.decal /\ e.kind \in {"expire", "draw"})
              evicted == {e.t : e \in {x \in Range(events') : x.kind = "evict"}}
          IN /\ \A t \in (Range(usedScarIDs) \cup Range(addedScars)) \ evicted :
                    Cardinality({k \in 1 .. Len(sweep) : sweep[k].t = t}) = 1
             /\ \A k \in 1 .. Len(sweep) :
                    /\ sweep[k].kind = "draw" => sweep[k].tLife >= frameNum
                    /\ sweep[k].kind = "expire" => sweep[k].tLife < frameNum
                    /\ (sweep[k].kind = "draw") = (Count(usedScarIDs', sweep[k].t) = 1)
             /\ \A t \in Range(usedScarIDs') : scars'[t].lifeTime >= frameNum]_vars

\* an expired scar was removed mid-sweep and the entry moved into its place
\* was examined after it
C17_Witness ==
    /\ FrameDrawn
    /\ \E k \in 1 .. Len(SweepEvents) :
           /\ SweepEvents[k].kind = "expire"
           /\ k < Len(SweepEvents)

\* the records handed back to the pool by the last handler, in order
Frees == SelectSeq(events, LAMBDA e : e.decal /\ e.kind \in {"free", "destroy"})

\* C18: each live decal record is in the decal-type lists exactly once and no
\* other record is in them; a record handed back to the pool, by the sweep or
\* by the destructor, is live when it is handed back, is handed back once, and
\* is out of the lists after that step, and a record leaves the live ones in
\* no other way.
C18_ListedOnceFreedOnce ==
    /\ [](\A s \in Slots :
             Count(Listed(objectDecalTypes, 1), s) = IF decals[s].live THEN 1 ELSE 0)
    /\ [](\A k \in 1 .. Len(Frees) :
             /\ Frees[k].live
             /\ \A j \in 1 .. Len(Frees) : Frees[j].t = Frees[k].t => j = k
             /\ ~decals[Frees[k].t].live
             /\ Count(Listed(objectDecalTypes, 1), Frees[k].t) = 0)
    /\ [][\A s \in Slots :
             (decals[s].live /\ ~decals'[s].live) =>
                 \E e \in Range(events') : e.decal /\ e.kind \in {"free", "destroy"} /\ e.t = s]_vars

\* the sweep freed a record that was not the last of its list, and the record
\* moved into its place had its turn and is still listed
C18_Witness ==
    /\ op.name = "Draw" /\ Len(objectDecalTypes) = 1
    /\ \E k \in 1 .. (Len(events) - 1) :
           /\ events[k].decal /\ events[k].kind = "free"
           /\ events[k + 1].decal /\ events[k + 1].kind # "free"
           /\ Count(Listed(objectDecalTypes, 1), events[k + 1].t) = 1

\* the destructor handed back a record after an earlier sweep had freed another
C18_TornDown ==
    /\ op.name = "~CGroundDecalHandler"
    /\ Len(Frees) = 1 /\ allocs >= 2
    /\ \A s \in Slots : ~decals[s].live

\* C19: between operations a scar id is in a cell of scarField exactly when the
\* scar is in the used list and the cell is in its rectangle of cells
\* (x1/16 .. min(scarFieldX-1, x2/16), y1/16 .. min(scarFieldY-1, y2/16)), and
\* then it is there once; the free and the pending ids are in no cell.
C19_IndexMatchesUsedScars ==
    /\ \A c \in Cells, id \in ScarIDs :
           Count(scarField[c], id) =
               IF Committed(id) /\ c \in Range(ScarCells(scars[id])) THEN 1 ELSE 0
    /\ \A id \in Range(freeScarIDs) \cup Range(addedScars) : InCells(scarField, id) = 0

\* a committed scar that lies over several cells stands next to a pending one
\* after a scar committed earlier was removed
C19_Witness ==
    /\ \E id \in Range(usedScarIDs) : Len(ScarCells(scars[id])) >= 2
    /\ Len(addedScars) > 0
    /\ lastScarOverlapTest > Len(usedScarIDs)

\* the turns of TestScarOverlaps in the last handler, in order
PassEvents == SelectSeq(events, LAMBDA e : e.kind \in {"seen", "skip", "test", "charge", "evict"})

\* C20: within the pass for a new scar S each existing scar T is tested, and so
\* charged, at most once, and when T is met again in another cell it is passed
\* over because it was tested earlier in that very pass; every pass has a stamp
\* above that of the pass before it, and between handlers no scar carries a
\* lastTest above lastScarOverlapTest, so the stamp of the next pass is new to
\* every scar.
C20_ChargedOncePerPass ==
    /\ [](\A k \in 1 .. Len(PassEvents) :
             /\ PassEvents[k].kind \in {"test", "charge"} =>
                    \A j \in 1 .. Len(PassEvents) :
                        (/\ PassEvents[j].kind = PassEvents[k].kind
                         /\ PassEvents[j].s = PassEvents[k].s
                         /\ PassEvents[j].t = PassEvents[k].t) => j = k
             /\ PassEvents[k].kind = "seen" =>
                    \E j \in 1 .. (k - 1) :
                        /\ PassEvents[j].kind = "test"
                        /\ PassEvents[j].s = PassEvents[k].s
                        /\ PassEvents[j].t = PassEvents[k].t
                        /\ PassEvents[j].stamp = PassEvents[k].stamp
             /\ \A j \in 1 .. (k - 1) :
                    IF PassEvents[j].s = PassEvents[k].s
                    THEN PassEvents[j].stamp = PassEvents[k].stamp
                    ELSE PassEvents[j].stamp < PassEvents[k].stamp
             /\ PassEvents[k].stamp <= lastScarOverlapTest)
    /\ [](\A id \in ScarIDs : scars[id].lastTest <= lastScarOverlapTest)
    /\ [][/\ lastScarOverlapTest' >= lastScarOverlapTest
          /\ (op'.name = "Draw" /\ ~op'.gated) =>
                 /\ lastScarOverlapTest' = lastScarOverlapTest + Len(addedScars)
                 /\ \A e \in Range(events') :
                        e.kind \in {"seen", "skip", "test", "charge", "evict"} =>
                            e.stamp > lastScarOverlapTest]_vars

\* a scar that shares two cells with the new scar was charged in the first
\* and passed over in the second
C20_Witness ==
    \E k \in 1 .. Len(PassEvents) :
        /\ PassEvents[k].kind = "seen"
        /\ \E j \in 1 .. (k - 1) :
               /\ PassEvents[j].kind = "charge"
               /\ PassEvents[j].s = PassEvents[k].s /\ PassEvents[j].t = PassEvents[k].t
        /\ Committed(PassEvents[k].t)

\* the cells two scars have in common
SharedCells(s, t) == Range(ScarCells(s)) \cap Range(ScarCells(t))

\* C21: in the pass for a new scar S every committed scar T that has a cell in
\* common with S and a lifeTime not above that of S, and that no earlier pass of
\* the frame evicted, has its overlap with S computed in that pass, however
\* many other scars the pass evicts from the same cell before it reaches T;
\* stated here for the scars T whose rectangle does intersect that of S.
C21_EveryNeighbourTested ==
    [][(op'.name = "Draw" /\ ~op'.gated) =>
          \A k \in 1 .. Len(addedScars) : \A t \in Range(usedScarIDs) :
              LET sid == addedScars[k]
                  pass == lastScarOverlapTest + k
              IN (/\ SharedCells(scars[sid], scars[t]) # {}
                  /\ scars[t].lifeTime <= scars[sid].lifeTime
                  /\ ScarOverlapSize(scars[sid], scars[t]) > 0
                  /\ ~\E e \in Range(events') : e.kind = "evict" /\ e.t = t /\ e.stamp < pass)
                 => \E e \in Range(events') :
                        e.kind = "test" /\ e.s = sid /\ e.t = t /\ e.stamp = pass]_vars

\* the area of the intersection of two rectangles, 0 when they do not meet
RectArea(r) == (r.x2 - r.x1) * (r.y2 - r.y1)
IntersectionArea(s, t) ==
    LET w == Min(s.x2, t.x2) - Max(s.x1, t.x1)
        h == Min(s.y2, t.y2) - Max(s.y1, t.y1)
    IN IF w > 0 /\ h > 0 THEN w * h ELSE 0

\* C22: for every two rectangles with x1 <= x2 and y1 <= y2, ScarOverlapSize
\* returns the area of their intersection, (min(x2) - max(x1)) * (min(y2) -
\* max(y1)), and 0 when they do not intersect, and so never more than the area
\* of either rectangle.
C22_OverlapIsIntersectionArea ==
    calc.phase = "done" =>
        /\ calc.st = IntersectionArea(calc.s, calc.t)
        /\ calc.st <= RectArea(calc.s)
        /\ calc.st <= RectArea(calc.t)

\* C23: a committed scar T that the pass for a new scar S meets in a shared
\* cell, but whose rectangle does not intersect that of S or whose basesize is
\* 0, is not charged and not evicted by S; every charge divides by a basesize
\* above 0; and a committed scar that no pass of the frame charges keeps its
\* overdrawn.
C23_NoChargeWithoutOverlap ==
    /\ [](\A e \in EventsOf({"charge", "evict"}) : e.ov > 0 /\ e.base > 0)
    /\ [][(op'.name = "Draw" /\ ~op'.gated) =>
             /\ \A k \in 1 .. Len(addedScars) : \A t \in Range(usedScarIDs) :
                   (IntersectionArea(scars[addedScars[k]], scars[t]) = 0 \/ scars[t].basesize = 0)
                   => ~\E e \in Range(events') : /\ e.kind \in {"charge", "evict"}
                                                 /\ e.s = addedScars[k] /\ e.t = t
             /\ \A t \in Range(usedScarIDs) \cap Range(usedScarIDs') :
                   (~\E e \in Range(events') : e.kind = "charge" /\ e.t = t)
                   => scars'[t].overdrawn = scars[t].overdrawn]_vars

\* a scar of no width was met in a shared cell by the pass of a longer-lived
\* scar and stays committed with nothing charged
C23_Witness ==
    /\ FrameDrawn
    /\ \E e \in EventsOf({"test"}) :
           /\ e.base = 0 /\ e.span >= 1
           /\ Committed(e.t) /\ scars[e.t].overdrawn = 0
    /\ \E e \in EventsOf({"test"}) : e.base > 0 /\ e.ov = 0 /\ Committed(e.t)

\* C24: a pending scar is in no cell and carries no charge and no stamp; in a
\* frame every turn of every pass has a pending scar as S and a scar committed
\* before the frame as T, so no pending scar is tested, charged or evicted, the
\* scars created between the same two frames do not meet, and no scar is
\* tested against itself; after the frame nothing is pending and each of the
\* pending scars was committed.
C24_PendingNeverTested ==
    /\ [](\A id \in Range(addedScars) :
             /\ InCells(scarField, id) = 0
             /\ scars[id].overdrawn = 0 /\ scars[id].lastTest = 0)
    /\ [][(op'.name = "Draw" /\ ~op'.gated) =>
             /\ \A e \in Range(events') :
                   e.kind \in {"seen", "skip", "test", "charge", "evict"} =>
                       /\ e.s \in Range(addedScars)
                       /\ e.t \in Range(usedScarIDs)
                       /\ e.t \notin Range(addedScars)
                       /\ e.s # e.t
             /\ addedScars' = <<>>
             /\ \A id \in Range(addedScars) :
                   \E e \in Range(events') : ~e.decal /\ e.kind \in {"draw", "expire"} /\ e.t = id]_vars

\* two scars of the same tick and lifetime whose rectangles intersect were
\* committed by one frame: neither was ever tested or charged
C24_Witness ==
    /\ FrameDrawn
    /\ \E a, b \in Range(usedScarIDs) :
           /\ a # b
           /\ scars[a].lifeTime = scars[b].lifeTime
           /\ IntersectionArea(scars[a], scars[b]) > 0
           /\ scars[a].lastTest = 0 /\ scars[b].lastTest = 0
           /\ scars[a].overdrawn = 0 /\ scars[b].overdrawn = 0

PassKinds == {"seen", "skip", "test", "charge", "evict"}
SweepKinds == {"expire", "draw"}

\* C25, as stated: in a rendered frame the pending scars are tested and
\* committed first, then the used scars are swept, and only then are the
\* object decals aged and freed; nothing is pending after the frame.
C25_ScarsThenDecals ==
    FrameDrawn =>
        /\ \A i, j \in 1 .. Len(events) :
              i < j => /\ ~(events[i].decal /\ ~events[j].decal)
                       /\ ~(~events[i].decal /\ ~events[j].decal
                            /\ events[i].kind \in SweepKinds /\ events[j].kind \in PassKinds)
        /\ addedScars = <<>>

\* C25, amended: in a rendered frame the object decals are aged and freed
\* first (DrawObjectDecals), then the pending scars are tested against the
\* committed ones and committed (AddScars), then the used scars are swept
\* (DrawScars); nothing is pending after the frame.
C25_DecalsThenScars ==
    FrameDrawn =>
        /\ \A i, j \in 1 .. Len(events) :
              i < j => /\ ~(~events[i].decal /\ events[j].decal)
                       /\ ~(~events[i].decal /\ ~events[j].decal
                            /\ events[i].kind \in SweepKinds /\ events[j].kind \in PassKinds)
        /\ addedScars = <<>>

\* a frame freed a faded decal, then charged a committed scar for a new one,
\* then swept the used scars
C25_Witness ==
    /\ FrameDrawn
    /\ \E i, j, k \in 1 .. Len(events) :
           /\ i < j /\ j < k
           /\ events[i].decal /\ events[i].kind = "free"
           /\ ~events[j].decal /\ events[j].kind = "charge"
           /\ ~events[k].decal /\ events[k].kind = "draw"

\* C26: no live decal has an owner and a ghost owner at the same time.
C26_OwnerOrGhostNotBoth ==
    \A s \in Slots : decals[s].live => ~(decals[s].owner # 0 /\ decals[s].gbOwner # 0)

\* an object died and left its decal to a ghost: the decal has the ghost and
\* no owner, while another decal has its owner
C26_Witness ==
    /\ op.name = "GhostCreated" /\ op.id # 0
    /\ decals[op.id].live /\ decals[op.id].gbOwner # 0 /\ decals[op.id].owner = 0
    /\ \E s \in Slots : decals[s].live /\ decals[s].owner # 0

\* a decal held by a ghost record
GhostHeld(pool, s) == pool[s].live /\ pool[s].gbOwner # 0 /\ pool[s].owner = 0

\* C27: a turn of the sweep on a decal held by a ghost neither lowers its
\* opacity nor frees it; a decal held by a ghost stays live and held, with its
\* opacity, until GhostDestroyed for that ghost detaches it; and the decal a
\* ghost record refers to is live and held by that ghost.
C27_GhostHeldNeverFades ==
    /\ [](\A e \in DecalEvents :
             (e.kind # "destroy" /\ e.live /\ e.gbOwner # 0 /\ e.owner = 0) =>
                 e.kind # "free" /\ e.alpha >= e.before)
    /\ [][\A s \in Slots :
             (GhostHeld(decals, s) /\ ~(op'.name = "GhostDestroyed" /\ op'.id = s)) =>
                 /\ GhostHeld(decals', s)
                 /\ decals'[s].gbOwner = decals[s].gbOwner
                 /\ decals'[s].alpha >= decals[s].alpha]_vars
    /\ [](\A g \in Ghosts :
             ghostDecal[g] # 0 =>
                 decals[ghostDecal[g]].live /\ decals[ghostDecal[g]].gbOwner = g)

\* a frame took its turn on a decal held by a ghost that is still drawn, and
\* the decal is there with the opacity it had
C27_Witness ==
    /\ op.name = "Draw"
    /\ \E e \in DecalEvents :
           /\ e.gbOwner # 0 /\ e.owner = 0 /\ e.before > 0 /\ e.alpha = e.before
           /\ GhostHeld(decals, e.t) /\ decals[e.t].alpha = e.before
           /\ ghostDecal[e.gbOwner] = e.t /\ ghostAge[e.gbOwner] < 2

\* C28: GhostDestroyed on a ghost that holds a decal clears the ghost owner of
\* that decal; if the ghost was drawn neither in this draw frame nor in the
\* one before, the opacity of the decal becomes 0, otherwise it stays; nothing
\* else of the decal and no other decal changes, nothing is freed and no list
\* changes; on a ghost without decal no decal changes.
C28_GhostDestroyedDetaches ==
    [][op'.name = "GhostDestroyed" =>
          \A gb \in Ghosts : (ghostAlive[gb] /\ ~ghostAlive'[gb]) =>
              LET d == ghostDecal[gb] IN
              /\ op'.id = d
              /\ objectDecalTypes' = objectDecalTypes /\ groundDecal' = groundDecal
              /\ \A s \in Slots : s # d => decals'[s] = decals[s]
              /\ (d # 0 /\ decals[d].live) =>
                     decals'[d] = [decals[d] EXCEPT
                                      !.gbOwner = 0,
                                      !.alpha = IF ghostAge[gb] >= 2 THEN 0 ELSE @]]_vars

\* a ghost drawn in the frame before was destroyed: its decal has no ghost
\* any more and the opacity it had
C28_Witness ==
    /\ op.name = "GhostDestroyed" /\ op.id # 0
    /\ decals[op.id].live /\ decals[op.id].gbOwner = 0 /\ decals[op.id].owner = 0
    /\ decals[op.id].alpha > 0

\* a ghost not drawn for two frames that holds a decal with some opacity
C28_StaleGhostReached ==
    \E gb \in Ghosts : /\ ghostAlive[gb] /\ ghostAge[gb] >= 2 /\ ghostDecal[gb] # 0
                       /\ decals[ghostDecal[gb]].live /\ decals[ghostDecal[gb]].alpha > 0

\* a decal without owner whose opacity is not above 0
Dark(pool, s) == pool[s].live /\ pool[s].owner = 0 /\ pool[s].alpha <= 0

\* C29: after ForceRemoveSolidObject the object refers to no decal and the
\* decal it referred to has no owner and opacity 0, with nothing else changed;
\* from then on the decal stays without owner and without opacity until it is
\* freed, and no turn of the sweep on a decal without owner raises its
\* opacity, so it is never gathered for drawing with an opacity above 0; on an
\* object without decal nothing changes.
C29_ForceRemovedStaysDark ==
    /\ [][op'.name = "ForceRemoveSolidObject" =>
             LET d == groundDecal[op'.obj] IN
             /\ op'.id = d
             /\ groundDecal' = [groundDecal EXCEPT ![op'.obj] = 0]
             /\ objectDecalTypes' = objectDecalTypes /\ ghostDecal' = ghostDecal
             /\ \A s \in Slots : s # d => decals'[s] = decals[s]
             /\ (d # 0 /\ decals[d].live) =>
                    /\ decals'[d] = [decals[d] EXCEPT !.owner = 0, !.alpha = 0]
                    /\ Dark(decals', d)]_vars
    /\ [][\A s \in Slots : Dark(decals, s) => (Dark(decals', s) \/ ~decals'[s].live)]_vars
    /\ [](\A e \in DecalEvents :
             (e.kind # "destroy" /\ e.owner = 0) => e.alpha <= e.before)

\* a unit with a decal was loaded into a transport: it has no decal any more
\* and the decal is dark
C29_Witness ==
    /\ op.name = "ForceRemoveSolidObject" /\ op.id # 0
    /\ groundDecal[op.obj] = 0
    /\ Dark(decals, op.id) /\ decals[op.id].alpha = 0 /\ decals[op.id].gbOwner = 0

\* a unit whose decal has some opacity
C29_LitDecalReached ==
    \E o \in Objects : /\ objAlive[o] /\ ObjectIsUnit(o) /\ groundDecal[o] # 0
                       /\ decals[groundDecal[o]].live /\ decals[groundDecal[o]].owner = o
                       /\ decals[groundDecal[o]].alpha > 0


\* C30: whenever an object refers to a decal, that decal is live (not freed)
\* and its owner is that object.
C30_BackReferenceConsistent ==
    \A o \in Objects :
        groundDecal[o] # 0 =>
            /\ decals[groundDecal[o]].live
            /\ decals[groundDecal[o]].owner = o

\* the reference of an object points at a record that was freed
C30_DanglingReached ==
    \E o \in Objects : groundDecal[o] # 0 /\ ~decals[groundDecal[o]].live


\* C31: MoveSolidObject changes nothing, looks no type up and allocates no
\* decal when the definition uses no ground decal or its type index is below
\* -1; a lookup that fails leaves an index below -1 in the definition and
\* changes no decal, list or reference; an index below -1 never changes again,
\* so every later MoveSolidObject for the definition returns before the lookup.
C31_MalformedIsNoOp ==
    /\ [][op'.name \in {"AddSolidObject", "MoveSolidObject"} =>
             LET d == MalformedDef(op'.obj) IN
             /\ (~DecalDefs[d].useGroundDecal \/ groundDecalType[d] < -1) =>
                    /\ UNCHANGED decalVars
                    /\ op'.arg = "" /\ op'.id = -1
             /\ (op'.arg # "" /\ TypeIndex(objectDecalTypes', StringToLower(op'.arg)) < 0) =>
                    /\ groundDecalType'[d] < -1
                    /\ \A e \in Defs \ {d} : groundDecalType'[e] = groundDecalType[e]
                    /\ UNCHANGED <<decals, allocs, objectDecalTypes, groundDecal, ghostDecal>>
                    /\ op'.id = -1]_vars
    /\ [][\A d \in Defs : groundDecalType[d] < -1 =>
             groundDecalType'[d] = groundDecalType[d]]_vars

\* a move of an object whose definition had its lookup fail before, with
\* decals switched on and types registered
C31_Witness ==
    /\ op.name = "MoveSolidObject" /\ op.arg = "" /\ op.id = -1
    /\ drawDecals
    /\ groundDecalType[MalformedDef(op.obj)] = -2
    /\ Len(objectDecalTypes) = 2

\* the lookup that failed, and a move of an object that uses no ground decal
C31_FailedLookupReached ==
    op.name = "AddSolidObject" /\ op.arg = "Rubble" /\ groundDecalType[4] = -2
C31_NoDecalMoveReached ==
    op.name = "MoveSolidObject" /\ ~DecalDefs[MalformedDef(op.obj)].useGroundDecal /\ drawDecals


\* the explosion is below ground, at or above its radius, or left with a
\* radius below 5
StoppedAtGate(radius, altitude) ==
    altitude <= -1 \/ altitude >= radius \/ radius - altitude < 5

\* C32: an explosion of a weapon whose scar flag is cleared changes no scar
\* state and takes no id; neither does one that is below ground, at or above
\* its radius in altitude or left with a radius below 5; an explosion without
\* weapon that passes these gates takes the id GetScarID hands out and leaves
\* it pending, whatever its damage, as one of a weapon with the flag set does.
C32_ScarFlagAndGates ==
    [][op'.name = "ExplosionOccurred" =>
          /\ op'.arg = "noscar" => UNCHANGED scarVars
          /\ StoppedAtGate(op'.radius, op'.altitude) => UNCHANGED scarVars
          /\ (op'.arg \in {"none", "scar"} /\ drawDecals
              /\ ~StoppedAtGate(op'.radius, op'.altitude)) =>
                 IF Len(freeScarIDs) = 0 THEN UNCHANGED scarVars
                 ELSE /\ freeScarIDs' = VectorPopped(freeScarIDs)
                      /\ addedScars' = Append(addedScars, VectorBack(freeScarIDs))
                      /\ op'.id = VectorBack(freeScarIDs)]_vars

\* an explosion of a weapon without scars that passed every other gate while
\* an id was free
C32_Witness ==
    /\ op.name = "ExplosionOccurred" /\ op.arg = "noscar"
    /\ ~StoppedAtGate(op.radius, op.altitude)
    /\ drawDecals /\ Len(freeScarIDs) > 0 /\ Len(usedScarIDs) > 0

\* an explosion without weapon and without damage that took an id
C32_NoWeaponReached ==
    /\ op.name = "ExplosionOccurred" /\ op.arg = "none" /\ op.damage = 0
    /\ op.id >= 0 /\ Len(addedScars) > 0 /\ addedScars[Len(addedScars)] = op.id


\* the ids that hold a scar: pending or committed
HeldScars == Range(addedScars) \cup Range(usedScarIDs)

\* C33: every scar AddExplosion created has lifeTime >= creationTime + 1,
\* whatever its damage, and a frame rendered in the tick a scar was created
\* in leaves the scar committed: its sweep does not expire it.
C33_LivesAtLeastOneTick ==
    /\ [](\A id \in HeldScars : scars[id].lifeTime >= scars[id].creationTime + 1)
    /\ [][op'.name = "Draw" =>
             \A id \in HeldScars :
                 scars[id].creationTime = frameNum =>
                     /\ \A e \in Range(events') : ~(e.kind = "expire" /\ e.t = id)
                     /\ \/ id \in Range(usedScarIDs') /\ scars'[id].creationTime = frameNum
                        \/ \E e \in Range(events') : e.kind = "evict" /\ e.t = id]_vars

\* a frame swept a scar of no damage in the tick it was created in, and
\* expired an older one
C33_Witness ==
    /\ op.name = "Draw" /\ frameNum > 0
    /\ \E id \in Range(usedScarIDs) :
          /\ scars[id].creationTime = frameNum
          /\ scars[id].lifeTime = frameNum + 1
          /\ \E e \in EventsOf({"draw"}) : e.t = id
    /\ EventsOf({"expire"}) # {}


\* C34: every id AddExplosion took (it is pending) is eventually committed
\* to the used ids, and every committed id is eventually back among the free
\* ids, whether or not there is a decal shader and whatever the toggle does.
C34_EveryIdReturns ==
    \A id \in ScarIDs :
        /\ (id \in Range(addedScars)) ~> (id \in Range(usedScarIDs))
        /\ (id \in Range(usedScarIDs)) ~> (id \in Range(freeScarIDs))

\* with a shader, an id that is pending or committed is back among the free
\* ids at some time, unless the toggle is off at some time
C34_ReturnsWhileDrawn ==
    \A id \in ScarIDs :
        (haveGLSL /\ id \in Range(addedScars) \cup Range(usedScarIDs))
            ~> (id \in Range(freeScarIDs) \/ ~drawDecals)

\* without a shader every id ends up pending
C34_AllPendingReached ==
    ~haveGLSL /\ Len(addedScars) = MaxScarCount /\ frameNum = MaxFrame /\ op.name = "Draw"

====
